---- MODULE Spec2Model ----
(***************************************************************************)
(* Spoverlay: the Spotify polling client (overlay/core/spotify_client.py), *)
(* the global hotkey manager (overlay/core/hotkey_manager.py), the socket  *)
(* listener (overlay/core/ipc_listener.py), the tray icon's visibility     *)
(* preference (overlay/ui/tray_icon.py), the hotkey recorder               *)
(* (overlay/core/hotkey_recorder.py) and the configuration save flow       *)
(* (overlay/ui/configure_window.py, overlay/app.py) as state machines.     *)
(*                                                                         *)
(* Threads: the owner (Qt main thread) runs the public operations; every   *)
(* start_polling() that finds no live poller spawns one "spotify-poller"   *)
(* thread running _run_polling_loop.  Time is not modelled: a sleep, a     *)
(* remote call or a join ends at a nondeterministic moment, constrained    *)
(* only where the code's durations decide the order (JoinMayTimeOut).      *)
(***************************************************************************)
EXTENDS Integers, Sequences, FiniteSets, TLC

(* ------------------------------ bounds -------------------------------- *)

\* Thread slots: how many poller threads may be alive or referenced at once.
MaxThreads == 2

\* How many raw key events the history of a listener keeps.
MaxKeyLog == 4

\* How many connections other processes make to the listener's socket.
MaxConnections == 2

(* -------------------------- program constants -------------------------- *)

IDLE_BACKOFF_MS == 2000
JOIN_TIMEOUT_MS == 2000
MIN_POLL_INTERVAL_MS == 250
DEFAULT_SPOTIFY_POLL_INTERVAL == 1000
LISTEN_BACKLOG == 1
IPC_ACCEPT_TIMEOUT_MS == 1000
IPC_JOIN_TIMEOUT_MS == 2000

(* ------------------------------ values --------------------------------- *)

\* Optional values: None is the empty tuple, a present value v is <<v>>.
None == <<>>

Some(v) == <<v>>

\* state.py: a frozen dataclass; equality is field by field.
NowPlaying(title, is_playing, progress_ms) ==
    [title |-> title, artist |-> "artist", album |-> "album",
     album_art_url |-> None, is_playing |-> is_playing,
     progress_ms |-> progress_ms, duration_ms |-> 1000]

X_playing == NowPlaying("X", TRUE, 0)

X_paused == NowPlaying("X", FALSE, 0)

Y_playing == NowPlaying("Y", TRUE, 0)

\* What one successful current_user_playing_track() call can yield.
FetchValues == {None, Some(X_playing), Some(X_paused), Some(Y_playing)}

\* The user's choices of the poll interval (ms) in the configure window.
PollChoices == {100, DEFAULT_SPOTIFY_POLL_INTERVAL, 5000}

\* The poll_interval_ms values load_config() may find in the config file,
\* which no widget has range-checked.
StoredPollIntervals == {0, DEFAULT_SPOTIFY_POLL_INTERVAL, 5000}

ThreadSlots == 1..MaxThreads

VARIABLES
    platform,        \* sys.platform, fixed at start-up
    objs,            \* the heap of AppConfig objects, by object id
    app_config,      \* SpoverlayApp.config (an object id)
    client_config,   \* SpotifyClient._config (an object id)
    _shared_config,  \* ConfigureWindow._shared_config (an object id)
    _sp,             \* SpotifyClient._sp is not None
    _thread,         \* SpotifyClient._thread: 0 is None, else a thread slot
    _stop_event,     \* SpotifyClient._stop_event.is_set()
    _last_state,     \* SpotifyClient._last_state
    _poll_interval,  \* SpotifyClient._poll_interval, in ms
    cache_exists,    \* os.path.exists(self.cache_path)
    threads,         \* the poller threads: position, locals, run history
    owner_pc,        \* the owner thread's position inside stop()/relogin()
    owner_last,      \* history: the public operation that returned last
    join_slow,       \* the joined thread can still need more than the timeout
    clear_pending,   \* history: clear_ui_requested was the last emission
    relogin_clears,  \* history: clear_ui_requested emissions of this relogin()
    relogin_remove_failed, \* history: the os.remove of the relogin() under way
                           \* raised OSError
    initial_fetches, \* history: get_current() calls of the initial_fetch_and_emit()
                     \* that was the owner's last operation (else 0)
    initial_emitted, \* history: the now_playing_updated values that call emitted
    initial_prev,    \* history: _last_state when that call began
    hotkey_config,   \* HotkeyManager._config (an object id)
    _target_keys,    \* HotkeyManager._target_keys
    _current_keys,   \* HotkeyManager._current_keys
    _listener,       \* HotkeyManager._listener is not None (the hook is installed)
    pressed,         \* the keys physically held down
    listener_hotkey, \* history: the hotkey string the listener was started with
    key_log,         \* history: the first raw key events the listener delivered
    key_log_base,    \* history: _current_keys when the listener was started
    _user_wants_visible, \* TrayIcon._user_wants_visible
    window_visible,  \* OverlayWindow.isVisible()
    _last_np,        \* OverlayWindow._last_np
    was_visible_before_relogin,  \* the local of TrayIcon._on_relogin while
                     \* it runs, FALSE outside it
    setup_window,    \* SpoverlayApp.setup_window: "none" (never shown),
                     \* "open", "saved" (client_id_saved emitted) or
                     \* "rejected"
    _running,        \* IpcListener._running
    ipc_thread,      \* IpcListener._thread: its position in _run ("none": no
                     \* IpcListener object exists)
    ipc_conn,        \* _run's local "connection" while it is open, with the
                     \* value _running had when accept() returned it
    socket_file,     \* what is at socket_path: "none", "stale" or "own"
    listening,       \* the server socket is bound and listening
    backlog,         \* connections made and not yet accepted
    ipc_owner_pc,    \* the owner thread's position inside IpcListener.stop()
    connections_made,\* history: connections other processes have made
    ipc_accepted,    \* history: client connections accepted while _running
    ipc_emitted,     \* history: toggle_visibility_requested emissions
    ipc_stopped,     \* history: stop() has been called on a running listener
    ipc_stop_raised, \* history: a stop() ended with an exception
    ipc_stale_at_init,  \* history: a previous run had left a socket file
    ipc_remove_failed,  \* history: an os.remove(socket_path) raised OSError
    ipc_bind_saw_file,  \* history: bind() was attempted with a file at the path
    ipc2_thread      \* where the thread of a second IpcListener on the same
                     \* path stands ("none": no second listener exists)

pollerVars == <<_sp, _thread, _stop_event, _last_state, _poll_interval,
                cache_exists, threads, owner_pc, owner_last, join_slow,
                clear_pending, relogin_clears,
                   relogin_remove_failed, initial_fetches, initial_emitted,
                initial_prev>>

initialVars == <<initial_fetches, initial_emitted, initial_prev>>

configVars == <<platform, objs, app_config, client_config, _shared_config>>

hotkeyVars == <<hotkey_config, _target_keys, _current_keys, _listener, pressed,
                listener_hotkey, key_log, key_log_base>>

trayVars == <<_user_wants_visible, window_visible, _last_np,
              was_visible_before_relogin, setup_window>>

ipcVars == <<_running, ipc_thread, ipc_conn, socket_file, listening, backlog,
             ipc_owner_pc, connections_made, ipc_accepted, ipc_emitted,
             ipc_stopped, ipc_stop_raised, ipc_stale_at_init,
             ipc_remove_failed, ipc_bind_saw_file, ipc2_thread>>

vars == <<configVars, pollerVars, hotkeyVars, trayVars, ipcVars>>

(* ------------------------- the poller threads -------------------------- *)

\* A slot no thread occupies.
Unborn ==
    [pc |-> "unborn", attempt |-> 0, api_errors |-> 0, current_state |-> None,
     sleep_duration |-> 0, prev |-> None, has_prev |-> FALSE,
     emitted |-> FALSE, stale |-> FALSE, after_clear |-> FALSE,
     calls |-> 0, failed |-> FALSE, begun_since_stop |-> 0]

\* Thread.is_alive(): started and _run_polling_loop has not returned.
IsAlive(t) == threads[t].pc \notin {"unborn", "done"}

AliveThreads == {t \in ThreadSlots : IsAlive(t)}

\* Positions of _run_polling_loop between the start of get_current() and the
\* write of _last_state.
InCycle(t) == threads[t].pc \in {"call", "backoff", "fetched", "emit", "store"}

\* The interval taken as configured, without the floor.
ClampPollIntervalNoFloor(ms) == ms

\* max(0.25, poll_interval_ms / 1000.0), kept in ms.
ClampPollInterval(ms) == IF ms > MIN_POLL_INTERVAL_MS THEN ms ELSE MIN_POLL_INTERVAL_MS

\* A sleep without the idle case.
SleepDurationAlwaysPoll(current_state, poll_interval) == poll_interval

\* Line 137: the sleep after a cycle.
SleepDuration(current_state, poll_interval) ==
    IF current_state = None \/ ~current_state[1].is_playing
    THEN IDLE_BACKOFF_MS
    ELSE poll_interval

\* A loop that a failed fetch ends, and a loop that does not test the signal.
LoopExitsAfterFailure(t) == _stop_event \/ ~_sp \/ threads[t].failed

LoopIgnoresStop(t) == ~_sp

\* Line 127 and 129-130: the loop ends when the stop signal is set or no API
\* client exists.
LoopExits(t) == _stop_event \/ ~_sp

\* while not self._stop_event.is_set(): if not self._sp: break
LoopCheck(t) ==
    /\ threads[t].pc = "loop"
    /\ IF LoopExits(t)
       THEN threads' = [threads EXCEPT ![t] =
                           IF t = _thread THEN [Unborn EXCEPT !.pc = "done"] ELSE Unborn]
       ELSE threads' = [threads EXCEPT ![t].pc = "call", ![t].attempt = 0,
                                       ![t].api_errors = 0, ![t].calls = 0]
    /\ UNCHANGED <<_sp, _thread, _stop_event, _last_state, _poll_interval,
                   cache_exists, owner_pc, owner_last, join_slow, clear_pending,
                   relogin_clears,
                   relogin_remove_failed,
                   initialVars, configVars, hotkeyVars, trayVars, ipcVars>>

\* History of thread t once the remote call of its current attempt has been
\* made: one more call, the failure of the cycle before forgotten, and one
\* more cycle begun under a set stop signal when the call is the cycle's first.
Called(t) ==
    [threads[t] EXCEPT
        !.calls = threads[t].calls + 1,
        !.failed = FALSE,
        !.begun_since_stop =
            IF threads[t].attempt = 0 /\ _stop_event /\ threads[t].begun_since_stop < 2
            THEN threads[t].begun_since_stop + 1
            ELSE threads[t].begun_since_stop]

\* get_current(): the remote call of this attempt returns; with an item the
\* result is a snapshot, without one it is None.
CallReturns(t, v) ==
    /\ threads[t].pc = "call"
    /\ threads' = [threads EXCEPT ![t] = [Called(t) EXCEPT !.pc = "fetched",
                                                           !.current_state = v]]
    /\ cache_exists' = TRUE
    /\ UNCHANGED <<_sp, _thread, _stop_event, _last_state, _poll_interval,
                   owner_pc, owner_last, join_slow, clear_pending,
                   relogin_clears,
                   relogin_remove_failed,
                   initialVars, configVars, hotkeyVars, trayVars, ipcVars>>

\* except spotipy.SpotifyException: log, then time.sleep(1).
CallRaisesSpotifyException(t) ==
    /\ threads[t].pc = "call"
    /\ threads' = [threads EXCEPT ![t] =
                      [Called(t) EXCEPT !.pc = "backoff",
                                        !.api_errors = threads[t].api_errors + 1]]
    /\ UNCHANGED <<_sp, _thread, _stop_event, _last_state, _poll_interval,
                   cache_exists, owner_pc, owner_last, join_slow, clear_pending,
                   relogin_clears,
                   relogin_remove_failed,
                   initialVars, configVars, hotkeyVars, trayVars, ipcVars>>

\* A retry loop of three attempts.
NextAttemptOfThree(thread) ==
    IF thread.attempt < 2
    THEN [thread EXCEPT !.pc = "call", !.attempt = thread.attempt + 1]
    ELSE [thread EXCEPT !.pc = "fetched", !.current_state = None, !.failed = TRUE]

\* The next iteration of "for attempt in range(2)", or "return None" after it.
NextAttempt(thread) ==
    IF thread.attempt = 0
    THEN [thread EXCEPT !.pc = "call", !.attempt = 1]
    ELSE [thread EXCEPT !.pc = "fetched", !.current_state = None, !.failed = TRUE]

\* time.sleep(1) returns.
BackoffDone(t) ==
    /\ threads[t].pc = "backoff"
    /\ threads' = [threads EXCEPT ![t] = NextAttempt(threads[t])]
    /\ UNCHANGED <<_sp, _thread, _stop_event, _last_state, _poll_interval,
                   cache_exists, owner_pc, owner_last, join_slow, clear_pending,
                   relogin_clears,
                   relogin_remove_failed,
                   initialVars, configVars, hotkeyVars, trayVars, ipcVars>>

\* except Exception: log only, no sleep.
CallRaisesException(t) ==
    /\ threads[t].pc = "call"
    /\ threads' = [threads EXCEPT ![t] = NextAttempt(Called(t))]
    /\ UNCHANGED <<_sp, _thread, _stop_event, _last_state, _poll_interval,
                   cache_exists, owner_pc, owner_last, join_slow, clear_pending,
                   relogin_clears,
                   relogin_remove_failed,
                   initialVars, configVars, hotkeyVars, trayVars, ipcVars>>

\* Line 133: the change test.
StateChanged(current_state, last_state) == current_state # last_state

\* if current_state != self._last_state:
Compare(t) ==
    /\ threads[t].pc = "fetched"
    /\ IF StateChanged(threads[t].current_state, _last_state)
       THEN threads' = [threads EXCEPT ![t].pc = "emit"]
       ELSE threads' = [threads EXCEPT
                           ![t].pc = "sleep",
                           ![t].sleep_duration =
                               SleepDuration(threads[t].current_state, _poll_interval)]
    /\ UNCHANGED <<_sp, _thread, _stop_event, _last_state, _poll_interval,
                   cache_exists, owner_pc, owner_last, join_slow, clear_pending,
                   relogin_clears,
                   relogin_remove_failed,
                   initialVars, configVars, hotkeyVars, trayVars, ipcVars>>

\* self.now_playing_updated.emit(current_state)
Emit(t) ==
    /\ threads[t].pc = "emit"
    /\ threads' = [threads EXCEPT ![t].pc = "store", ![t].emitted = TRUE,
                                  ![t].after_clear = clear_pending]
    /\ clear_pending' = FALSE
    /\ UNCHANGED <<_sp, _thread, _stop_event, _last_state, _poll_interval,
                   cache_exists, owner_pc, owner_last, join_slow,
                   relogin_clears,
                   relogin_remove_failed,
                   initialVars, configVars, hotkeyVars, trayVars, ipcVars>>

\* self._last_state = current_state, then the sleep of line 137-138 begins.
Store(t) ==
    /\ threads[t].pc = "store"
    /\ _last_state' = threads[t].current_state
    /\ threads' = [threads EXCEPT
                      ![t].pc = "sleep",
                      ![t].sleep_duration =
                          SleepDuration(threads[t].current_state, _poll_interval)]
    /\ UNCHANGED <<_sp, _thread, _stop_event, _poll_interval,
                   cache_exists, owner_pc, owner_last, join_slow, clear_pending,
                   relogin_clears,
                   relogin_remove_failed,
                   initialVars, configVars, hotkeyVars, trayVars, ipcVars>>

\* time.sleep(sleep_duration) returns; the cycle's result becomes the run's
\* previous fetch result.
SleepDone(t) ==
    /\ threads[t].pc = "sleep"
    /\ threads' = [threads EXCEPT
                      ![t].pc = "loop", ![t].sleep_duration = 0,
                      ![t].prev = threads[t].current_state, ![t].has_prev = TRUE,
                      ![t].emitted = FALSE, ![t].stale = FALSE,
                      ![t].after_clear = FALSE, ![t].api_errors = 0,
                      ![t].attempt = 0]
    /\ UNCHANGED <<_sp, _thread, _stop_event, _last_state, _poll_interval,
                   cache_exists, owner_pc, owner_last, join_slow, clear_pending,
                   relogin_clears,
                   relogin_remove_failed,
                   initialVars, configVars, hotkeyVars, trayVars, ipcVars>>

(* --------------------------- the owner thread -------------------------- *)

\* start_polling() without its liveness test.
AlreadyPollingUnchecked == FALSE

\* if self._thread and self._thread.is_alive(): return
AlreadyPolling == _thread # 0 /\ IsAlive(_thread)

\* The slots once the Thread object self._thread no longer refers to is dropped.
Released == [t \in ThreadSlots |->
                IF threads[t].pc = "done" THEN Unborn ELSE threads[t]]

FreeSlots == {t \in ThreadSlots : Released[t].pc = "unborn"}

LowestFree == CHOOSE t \in FreeSlots : \A u \in FreeSlots : t <= u

\* The body of start_polling(): what it does to the event, the thread
\* reference and the threads.
StartPollingBody ==
    IF ~_sp \/ AlreadyPolling
    THEN UNCHANGED <<_stop_event, _thread, threads>>
    ELSE /\ FreeSlots # {}
         /\ _stop_event' = FALSE
         /\ _thread' = LowestFree
         /\ threads' = [Released EXCEPT ![LowestFree] =
                           [Unborn EXCEPT !.pc = "loop", !.prev = _last_state]]

\* An owner operation other than initial_fetch_and_emit() starts: the history
\* of the last initial_fetch_and_emit() is dropped.
InitialHistoryReset ==
    initial_fetches' = 0 /\ initial_emitted' = <<>> /\ initial_prev' = None

\* start_polling() called by the owner.
StartPolling ==
    /\ owner_pc = "idle"
    /\ StartPollingBody
    /\ InitialHistoryReset
    /\ owner_last' = IF owner_last \in {"start_polling", "start_polling_again"}
                     THEN "start_polling_again" ELSE "start_polling"
    /\ UNCHANGED <<_sp, _last_state, _poll_interval, cache_exists, owner_pc,
                   join_slow, clear_pending, relogin_clears,
                   relogin_remove_failed, configVars,
                   hotkeyVars, trayVars, ipcVars>>

\* Whether thread t, as it stands when the join begins, can still run for
\* longer than the join's timeout: it is inside a cycle (an unbounded remote
\* call, then a sleep), or in a sleep longer than the timeout.
JoinMayTimeOut(t) ==
    \/ InCycle(t)
    \/ threads[t].pc = "sleep" /\ threads[t].sleep_duration > JOIN_TIMEOUT_MS

\* A stop() that never joins.
ThreadToJoinNever == FALSE

\* stop(), line 144: if self._thread and self._thread.is_alive():
ThreadToJoin == _thread # 0 /\ IsAlive(_thread)

\* stop() up to its join: self._stop_event.set(), then the is_alive() test.
\* next is where the owner goes once stop() has returned.
StopBegin(joining, next) ==
    /\ _stop_event' = TRUE
    /\ IF ThreadToJoin
       THEN owner_pc' = joining /\ join_slow' = JoinMayTimeOut(_thread)
       ELSE owner_pc' = next /\ join_slow' = FALSE

\* History: stop() returns, directly after another stop() or not.
StopReturned ==
    IF owner_last \in {"stop", "stop_again"} THEN "stop_again" ELSE "stop"

\* stop() called by the owner.
Stop ==
    /\ owner_pc = "idle"
    /\ StopBegin("stop_join", "idle")
    /\ owner_last' = IF ThreadToJoin THEN owner_last ELSE StopReturned
    /\ InitialHistoryReset
    /\ UNCHANGED <<_sp, _thread, _last_state, _poll_interval, cache_exists,
                   threads, clear_pending, relogin_clears,
                   relogin_remove_failed, configVars,
                   hotkeyVars, trayVars, ipcVars>>

\* Where the owner goes after the join, and what then returned.
AfterJoin ==
    /\ owner_pc' = IF owner_pc = "stop_join" THEN "idle" ELSE "relogin_clear"
    /\ owner_last' = IF owner_pc = "stop_join" THEN StopReturned ELSE owner_last
    /\ join_slow' = FALSE

\* self._thread.join(timeout=2.0) returns because the thread has exited.
JoinDone ==
    /\ owner_pc \in {"stop_join", "relogin_join"}
    /\ ~IsAlive(_thread)
    /\ AfterJoin
    /\ UNCHANGED <<_sp, _thread, _stop_event, _last_state, _poll_interval,
                   cache_exists, threads, clear_pending, relogin_clears,
                   relogin_remove_failed,
                   initialVars, configVars, hotkeyVars, trayVars, ipcVars>>

\* self._thread.join(timeout=2.0) returns because 2 s have passed.
JoinTimeout ==
    /\ owner_pc \in {"stop_join", "relogin_join"}
    /\ IsAlive(_thread)
    /\ join_slow
    /\ AfterJoin
    /\ UNCHANGED <<_sp, _thread, _stop_event, _last_state, _poll_interval,
                   cache_exists, threads, clear_pending, relogin_clears,
                   relogin_remove_failed,
                   initialVars, configVars, hotkeyVars, trayVars, ipcVars>>

\* TrayIcon._on_relogin up to the call, lines 118-120: a visible overlay is
\* hidden through _set_visibility_and_update_ui(False).
HideBeforeRelogin ==
    window_visible' = IF _user_wants_visible THEN FALSE ELSE window_visible

\* relogin() called by the tray's _on_relogin: "if not self._sp: return",
\* then self.stop().  When relogin() returns at once, _on_relogin restores
\* the preference in the same step.
Relogin ==
    /\ owner_pc = "idle"
    /\ IF ~_sp
       THEN /\ owner_last' = "other"
            /\ UNCHANGED <<_stop_event, owner_pc, join_slow, relogin_clears,
                   relogin_remove_failed>>
            /\ UNCHANGED <<_user_wants_visible, was_visible_before_relogin>>
       ELSE /\ StopBegin("relogin_join", "relogin_clear")
            /\ relogin_clears' = 0
            /\ relogin_remove_failed' = FALSE
            /\ UNCHANGED owner_last
            /\ was_visible_before_relogin' = _user_wants_visible
            /\ _user_wants_visible' = FALSE
    /\ HideBeforeRelogin
    /\ InitialHistoryReset
    /\ UNCHANGED <<_sp, _thread, _last_state, _poll_interval, cache_exists,
                   threads, clear_pending, _last_np, setup_window,
                   configVars, hotkeyVars, ipcVars>>

\* OverlayWindow.clear_ui(), lines 204-212: show_placeholder() ends with
\* self.show(), whatever user_visibility_state is; _last_np = None.
clear_ui ==
    /\ window_visible' = TRUE
    /\ _last_np' = None

\* self.clear_ui_requested.emit(): emitted on the thread the window lives
\* on, the slot clear_ui runs inside the emit.
ReloginClearUi ==
    /\ owner_pc = "relogin_clear"
    /\ owner_pc' = "relogin_reset"
    /\ clear_pending' = TRUE
    /\ relogin_clears' = relogin_clears + 1
    /\ threads' = [t \in ThreadSlots |-> [threads[t] EXCEPT !.after_clear = FALSE]]
    /\ clear_ui
    /\ UNCHANGED <<_sp, _thread, _stop_event, _last_state, _poll_interval,
                   cache_exists, owner_last, join_slow, relogin_remove_failed,
                   _user_wants_visible, was_visible_before_relogin,
                   setup_window,
                   initialVars, configVars, hotkeyVars, ipcVars>>

\* self._last_state = None; a cycle under way began before this reset.
ReloginReset ==
    /\ owner_pc = "relogin_reset"
    /\ owner_pc' = "relogin_cache"
    /\ _last_state' = None
    /\ threads' = [t \in ThreadSlots |->
                      IF InCycle(t) \/ threads[t].pc = "sleep"
                      THEN [threads[t] EXCEPT !.stale = TRUE]
                      ELSE threads[t]]
    /\ UNCHANGED <<_sp, _thread, _stop_event, _poll_interval, cache_exists,
                   owner_last, join_slow, clear_pending, relogin_clears,
                   relogin_remove_failed,
                   initialVars, configVars, hotkeyVars, trayVars, ipcVars>>

\* if os.path.exists(self.cache_path): try: os.remove(...) except OSError: pass
ReloginRemoveCache ==
    /\ owner_pc = "relogin_cache"
    /\ owner_pc' = "relogin_start"
    /\ cache_exists' \in (IF cache_exists THEN {FALSE, TRUE} ELSE {FALSE})
    /\ relogin_remove_failed' = (cache_exists /\ cache_exists')
    /\ UNCHANGED <<_sp, _thread, _stop_event, _last_state, _poll_interval,
                   threads, owner_last, join_slow, clear_pending,
                   relogin_clears,
                   initialVars, configVars, hotkeyVars, trayVars, ipcVars>>

\* self.start_polling(), and relogin() returns; _on_relogin then restores
\* the preference it found (tray_icon.py lines 124-126).
ReloginStartPolling ==
    /\ owner_pc = "relogin_start"
    /\ StartPollingBody
    /\ owner_pc' = "idle"
    /\ owner_last' = "relogin"
    /\ relogin_remove_failed' = FALSE
    /\ _user_wants_visible' = was_visible_before_relogin
    /\ was_visible_before_relogin' = FALSE
    /\ UNCHANGED <<_sp, _last_state, _poll_interval, cache_exists,
                   join_slow, clear_pending, relogin_clears,
                   window_visible, _last_np, setup_window,
                   initialVars, configVars, hotkeyVars, ipcVars>>

\* The outcome of one remote call: a value, or one of the two exception classes.
AttemptOutcomes ==
    {[kind |-> "value", value |-> v] : v \in FetchValues}
        \cup {[kind |-> k, value |-> None] : k \in {"SpotifyException", "Exception"}}

\* get_current() as a function of the outcomes of its (at most) two attempts.
get_current(o1, o2) ==
    IF o1.kind = "value" THEN o1.value
    ELSE IF o2.kind = "value" THEN o2.value
    ELSE None

\* How many remote calls get_current() makes for these outcomes: the second
\* attempt is made only when the first raised.
CallsMade(o1, o2) == IF o1.kind = "value" THEN 1 ELSE 2

\* get_current() from its first line on: without an API client it returns None
\* before any attempt.
GetCurrent(sp, o1, o2) ==
    IF ~sp THEN [result |-> None, calls |-> 0]
    ELSE [result |-> get_current(o1, o2), calls |-> CallsMade(o1, o2)]

\* An initial emission that is debounced like the loop's.
InitialEmitsIfChanged(initial_state, last_state) == initial_state # last_state

\* initial_fetch_and_emit(), line 180: the emission is not conditional.
InitialEmits(initial_state, last_state) == TRUE

\* initial_fetch_and_emit(): one blocking get_current() on the owner thread,
\* emitted and stored whatever it is.
InitialFetchBody(o1, o2) ==
    /\ initial_prev' = _last_state
    /\ IF ~_sp
       THEN /\ initial_fetches' = 0
            /\ initial_emitted' = <<>>
            /\ UNCHANGED <<_last_state, clear_pending, cache_exists>>
       ELSE /\ initial_fetches' = 1
            /\ initial_emitted' =
                   IF InitialEmits(get_current(o1, o2), _last_state)
                   THEN <<get_current(o1, o2)>> ELSE <<>>
            /\ _last_state' = get_current(o1, o2)
            /\ clear_pending' = (clear_pending /\ initial_emitted' = <<>>)
            /\ cache_exists' = (cache_exists \/ o1.kind = "value" \/ o2.kind = "value")

\* initial_fetch_and_emit() called by the owner while no loop runs.
InitialFetchAndEmit(o1, o2) ==
    /\ owner_pc = "idle"
    /\ AliveThreads = {}
    /\ InitialFetchBody(o1, o2)
    /\ owner_last' = "initial_fetch"
    /\ UNCHANGED <<_sp, _thread, _stop_event, _poll_interval, threads,
                   owner_pc, join_slow, relogin_clears,
                   relogin_remove_failed, configVars,
                   hotkeyVars, trayVars, ipcVars>>

\* update_credentials(new_client_id), from the setup window: the client id is
\* written into the config and _initialize_client() runs; a failure of the
\* PKCE set-up is logged and leaves _sp unset.
UpdateCredentials(ok) ==
    /\ owner_pc = "idle"
    /\ objs[client_config].client_id = ""
    /\ objs' = [objs EXCEPT ![client_config].client_id = "id"]
    /\ _sp' = ok
    /\ owner_last' = "other"
    /\ InitialHistoryReset
    /\ UNCHANGED <<platform, app_config, client_config, _shared_config,
                   _thread, _stop_event, _last_state, _poll_interval,
                   cache_exists, threads, owner_pc, join_slow, clear_pending,
                   relogin_clears,
                   relogin_remove_failed, hotkeyVars, trayVars, ipcVars>>

\* SpotifyClient.is_configured(): bool(self._config.client.client_id)
is_configured == objs[client_config].client_id # ""

(* -------------------------- the hotkey manager ------------------------- *)

\* Strings are sequences of one-character strings, so that split, strip,
\* lower and len act on them as they do in Python.
UpperToLower ==
    [A |-> "a", B |-> "b", C |-> "c", D |-> "d", E |-> "e", F |-> "f",
     G |-> "g", H |-> "h", I |-> "i", J |-> "j", K |-> "k", L |-> "l",
     M |-> "m", N |-> "n", O |-> "o", P |-> "p", Q |-> "q", R |-> "r",
     S |-> "s", T |-> "t", U |-> "u", V |-> "v", W |-> "w", X |-> "x",
     Y |-> "y", Z |-> "z"]

\* A lower() that leaves every character as it is.
LowerKeepsCase(str) == str

\* str.lower()
Lower(str) ==
    [i \in 1..Len(str) |->
        IF str[i] \in DOMAIN UpperToLower THEN UpperToLower[str[i]] ELSE str[i]]

\* str.strip(): leading and trailing blanks removed.
RECURSIVE Strip(_)
Strip(str) ==
    IF str = <<>> THEN str
    ELSE IF Head(str) = " " THEN Strip(Tail(str))
    ELSE IF str[Len(str)] = " " THEN Strip(SubSeq(str, 1, Len(str) - 1))
    ELSE str

\* str.split("+"), from position i on, cur being the part under way.
RECURSIVE SplitPlus(_, _, _)
SplitPlus(str, i, cur) ==
    IF i > Len(str) THEN <<cur>>
    ELSE IF str[i] = "+" THEN <<cur>> \o SplitPlus(str, i + 1, <<>>)
    ELSE SplitPlus(str, i + 1, Append(cur, str[i]))

\* The names of the members of pynput's keyboard.Key.
KeyNames ==
    {<<"a", "l", "t">>, <<"a", "l", "t", "_", "l">>,
     <<"a", "l", "t", "_", "r">>, <<"a", "l", "t", "_", "g", "r">>,
     <<"b", "a", "c", "k", "s", "p", "a", "c", "e">>,
     <<"c", "a", "p", "s", "_", "l", "o", "c", "k">>, <<"c", "m", "d">>,
     <<"c", "m", "d", "_", "l">>, <<"c", "m", "d", "_", "r">>,
     <<"c", "t", "r", "l">>, <<"c", "t", "r", "l", "_", "l">>,
     <<"c", "t", "r", "l", "_", "r">>, <<"d", "e", "l", "e", "t", "e">>,
     <<"d", "o", "w", "n">>, <<"e", "n", "d">>, <<"e", "n", "t", "e", "r">>,
     <<"e", "s", "c">>, <<"f", "1">>, <<"f", "2">>, <<"f", "3">>,
     <<"f", "4">>, <<"f", "5">>, <<"f", "6">>, <<"f", "7">>, <<"f", "8">>,
     <<"f", "9">>, <<"f", "1", "0">>, <<"f", "1", "1">>, <<"f", "1", "2">>,
     <<"f", "1", "3">>, <<"f", "1", "4">>, <<"f", "1", "5">>,
     <<"f", "1", "6">>, <<"f", "1", "7">>, <<"f", "1", "8">>,
     <<"f", "1", "9">>, <<"f", "2", "0">>, <<"h", "o", "m", "e">>,
     <<"l", "e", "f", "t">>, <<"p", "a", "g", "e", "_", "d", "o", "w", "n">>,
     <<"p", "a", "g", "e", "_", "u", "p">>, <<"r", "i", "g", "h", "t">>,
     <<"s", "h", "i", "f", "t">>, <<"s", "h", "i", "f", "t", "_", "l">>,
     <<"s", "h", "i", "f", "t", "_", "r">>, <<"s", "p", "a", "c", "e">>,
     <<"t", "a", "b">>, <<"u", "p">>,
     <<"m", "e", "d", "i", "a", "_", "p", "l", "a", "y", "_", "p", "a", "u", "s", "e">>,
     <<"m", "e", "d", "i", "a", "_", "v", "o", "l", "u", "m", "e", "_", "m", "u", "t", "e">>,
     <<"m", "e", "d", "i", "a", "_", "v", "o", "l", "u", "m", "e", "_", "d", "o", "w", "n">>,
     <<"m", "e", "d", "i", "a", "_", "v", "o", "l", "u", "m", "e", "_", "u", "p">>,
     <<"m", "e", "d", "i", "a", "_", "p", "r", "e", "v", "i", "o", "u", "s">>,
     <<"m", "e", "d", "i", "a", "_", "n", "e", "x", "t">>,
     <<"i", "n", "s", "e", "r", "t">>, <<"m", "e", "n", "u">>,
     <<"n", "u", "m", "_", "l", "o", "c", "k">>, <<"p", "a", "u", "s", "e">>,
     <<"p", "r", "i", "n", "t", "_", "s", "c", "r", "e", "e", "n">>,
     <<"s", "c", "r", "o", "l", "l", "_", "l", "o", "c", "k">>}

\* keyboard.Key[name]
Key(name) == [kind |-> "Key", name |-> name]

\* keyboard.KeyCode.from_char(char)
KeyCode(char) == [kind |-> "KeyCode", name |-> char]

\* A parser that drops a part it does not know and keeps the others.
RECURSIVE ParsePartsSkipsInvalid(_, _, _)
ParsePartsSkipsInvalid(key_parts, i, target_keys) ==
    IF i > Len(key_parts) THEN target_keys
    ELSE IF key_parts[i] \in KeyNames
         THEN ParsePartsSkipsInvalid(key_parts, i + 1,
                                     target_keys \cup {Key(key_parts[i])})
    ELSE IF Len(key_parts[i]) = 1
         THEN ParsePartsSkipsInvalid(key_parts, i + 1,
                                     target_keys \cup {KeyCode(key_parts[i])})
    ELSE ParsePartsSkipsInvalid(key_parts, i + 1, target_keys)

\* The loop of _parse_hotkey_string over key_parts from index i on; the first
\* part that is neither a Key name nor one character gives the empty set.
RECURSIVE ParseParts(_, _, _)
ParseParts(key_parts, i, target_keys) ==
    IF i > Len(key_parts) THEN target_keys
    ELSE IF key_parts[i] \in KeyNames
         THEN ParseParts(key_parts, i + 1, target_keys \cup {Key(key_parts[i])})
    ELSE IF Len(key_parts[i]) = 1
         THEN ParseParts(key_parts, i + 1, target_keys \cup {KeyCode(key_parts[i])})
    ELSE {}

_parse_hotkey_string(hotkey_str) ==
    IF hotkey_str = <<>> THEN {}
    ELSE LET parts == SplitPlus(hotkey_str, 1, <<>>)
             key_parts == [i \in 1..Len(parts) |-> Lower(Strip(parts[i]))]
         IN  ParseParts(key_parts, 1, {})

\* The keys whose raw events the operating system hook delivers.
KEY_A == KeyCode(<<"a">>)

KEY_B == KeyCode(<<"b">>)

KEY_C == KeyCode(<<"c">>)

RawKeys == {KEY_A, KEY_B, KEY_C}

\* The hotkey strings the user may configure: "a+b", "A + c", "b", the
\* default "F7", "ctrl+@@" and the empty string.
HotkeyStrings ==
    {<<"a", "+", "b">>, <<"A", " ", "+", " ", "c">>, <<"b">>, <<"F", "7">>,
     <<"c", "t", "r", "l", "+", "@", "@">>, <<>>}

\* Hotkey strings a config file may hold: "ctrl+shift+f7", "CTRL+Shift+F7",
\* "ctrl+@@", "a++b", "", "b", "A + b", "b+B", "@@+b" and "+".
ParseInputs ==
    {<<"c", "t", "r", "l", "+", "s", "h", "i", "f", "t", "+", "f", "7">>,
     <<"C", "T", "R", "L", "+", "S", "h", "i", "f", "t", "+", "F", "7">>,
     <<"c", "t", "r", "l", "+", "@", "@">>, <<"a", "+", "+", "b">>, <<>>,
     <<"b">>, <<"A", " ", "+", " ", "b">>, <<"b", "+", "B">>,
     <<"@", "@", "+", "b">>, <<"+">>}

\* _on_press, line 74: if self._current_keys == self._target_keys
KeysMatchSuperset(current_keys, target_keys) == target_keys \subseteq current_keys

KeysMatch(current_keys, target_keys) == current_keys = target_keys

\* Whether _on_release emits hotkey_triggered: it only discards the key.
ReleaseEmitsOnMatch(current_keys, target_keys) == current_keys = target_keys

ReleaseEmits(current_keys, target_keys) == FALSE

\* The history of raw events: the first MaxKeyLog events since the listener
\* was started, each with the held set it left and whether it emitted.
Logged(ev, key, held, fired, visible) ==
    IF Len(key_log) < MaxKeyLog
    THEN Append(key_log, [ev |-> ev, key |-> key, held |-> held, fired |-> fired,
                          visible |-> visible])
    ELSE key_log

\* TrayIcon.toggle_visibility: new_state = not self._user_wants_visible
toggle_visibility(user_wants_visible) == ~user_wants_visible

\* OverlayWindow.set_now_playing(np), lines 303-324: whether the window is
\* shown afterwards, user_visibility_state being the preference wanted.
ShownAfterSetNowPlaying(wanted, np) ==
    IF ~wanted THEN FALSE ELSE (np # None /\ np[1].is_playing)

\* TrayIcon._set_visibility_and_update_ui(new_state) once the preference is
\* set, lines 101-104: set_now_playing(get_last_now_playing()) or hide();
\* toggled tells whether the method was called at all.
UpdateUi(toggled) ==
    /\ window_visible' =
           IF ~toggled THEN window_visible
           ELSE IF _user_wants_visible'
                THEN ShownAfterSetNowPlaying(_user_wants_visible', _last_np)
                ELSE FALSE
    /\ UNCHANGED <<_last_np, was_visible_before_relogin, setup_window>>

\* The preference after a raw event: hotkey_triggered is connected to
\* TrayIcon.toggle_visibility, which runs once per emission.
AfterHotkey(fired) ==
    IF fired THEN toggle_visibility(_user_wants_visible) ELSE _user_wants_visible

\* A key goes down (or auto-repeats while held); with the hook installed the
\* listener thread runs _on_press(key).
KeyDown(key) ==
    /\ pressed' = pressed \cup {key}
    /\ IF _listener
       THEN /\ _current_keys' = _current_keys \cup {key}
            /\ _user_wants_visible' =
                   AfterHotkey(KeysMatch(_current_keys', _target_keys))
            /\ UpdateUi(KeysMatch(_current_keys', _target_keys))
            /\ key_log' = Logged("press", key, _current_keys',
                                 KeysMatch(_current_keys', _target_keys),
                                 _user_wants_visible')
       ELSE UNCHANGED <<_current_keys, key_log, trayVars>>
    /\ UNCHANGED <<hotkey_config, _target_keys, _listener, listener_hotkey,
                   key_log_base, configVars, pollerVars, ipcVars>>

\* A held key goes up; with the hook installed the listener thread runs
\* _on_release(key).
KeyUp(key) ==
    /\ key \in pressed
    /\ pressed' = pressed \ {key}
    /\ IF _listener
       THEN /\ _current_keys' = _current_keys \ {key}
            /\ _user_wants_visible' =
                   AfterHotkey(ReleaseEmits(_current_keys', _target_keys))
            /\ UpdateUi(ReleaseEmits(_current_keys', _target_keys))
            /\ key_log' = Logged("release", key, _current_keys',
                                 ReleaseEmits(_current_keys', _target_keys),
                                 _user_wants_visible')
       ELSE UNCHANGED <<_current_keys, key_log, trayVars>>
    /\ UNCHANGED <<hotkey_config, _target_keys, _listener, listener_hotkey,
                   key_log_base, configVars, pollerVars, ipcVars>>

\* A start_listener() that returns on an empty string before stop_listener().
StartListenerKeepsOld(hotkey_str) ==
    LET parsed == _parse_hotkey_string(hotkey_str) IN
    /\ _target_keys' = IF hotkey_str = <<>> THEN _target_keys ELSE parsed
    /\ _listener' = IF hotkey_str = <<>> THEN _listener ELSE parsed # {}
    /\ listener_hotkey' = hotkey_str
    /\ key_log' = <<>>
    /\ key_log_base' = _current_keys

\* start_listener() with self._config.ui.hotkey = hotkey_str: stop_listener(),
\* then parse, then install the hook unless the string is empty or unparsable.
\* _current_keys is not touched.
StartListener(hotkey_str) ==
    LET parsed == _parse_hotkey_string(hotkey_str) IN
    /\ _target_keys' = IF hotkey_str = <<>> THEN _target_keys ELSE parsed
    /\ _listener' = (hotkey_str # <<>> /\ parsed # {})
    /\ listener_hotkey' = hotkey_str
    /\ key_log' = <<>>
    /\ key_log_base' = _current_keys

\* The owner calls start_listener() on the manager as it stands.
StartListenerCall ==
    /\ owner_pc = "idle"
    /\ hotkey_config # 0
    /\ StartListener(objs[hotkey_config].hotkey)
    /\ UNCHANGED <<hotkey_config, _current_keys, pressed, trayVars, configVars,
                   pollerVars, ipcVars>>

\* HotkeyManager.on_config_changed(new_config), the objects being those of
\* heap: restart only if the two objects' hotkey strings differ.
HotkeyOnConfigChanged(new_config, heap) ==
    /\ hotkey_config' = new_config
    /\ IF heap[hotkey_config].hotkey # heap[new_config].hotkey
       THEN StartListener(heap[new_config].hotkey)
       ELSE UNCHANGED <<_target_keys, _listener, listener_hotkey, key_log,
                        key_log_base>>
    /\ UNCHANGED <<_current_keys, pressed>>

\* on_config_changed without its update of the interval.
ClientOnConfigChangedKeepsInterval(new_config, heap) ==
    /\ client_config' = new_config
    /\ UNCHANGED _poll_interval

\* SpotifyClient.on_config_changed(new_config)
ClientOnConfigChanged(new_config, heap) ==
    /\ client_config' = new_config
    /\ _poll_interval' = ClampPollInterval(heap[new_config].poll_interval_ms)

\* ConfigureWindow._on_save: the widgets' values are written into the shared
\* AppConfig object, config_saved is emitted with that object, and
\* SpoverlayApp._on_config_changed hands it to every component.
OnSave(client_id, hotkey, poll_interval_ms) ==
    /\ owner_pc = "idle"
    /\ objs' = [objs EXCEPT ![_shared_config].client_id = client_id,
                            ![_shared_config].hotkey = hotkey,
                            ![_shared_config].poll_interval_ms = poll_interval_ms]
    /\ app_config' = _shared_config
    /\ ClientOnConfigChanged(app_config', objs')
    /\ IF platform = "linux"
       THEN UNCHANGED hotkeyVars
       ELSE HotkeyOnConfigChanged(app_config', objs')
    /\ owner_last' = "other"
    /\ InitialHistoryReset
    /\ UNCHANGED <<platform, _shared_config, _sp, _thread, _stop_event,
                   _last_state, cache_exists, threads, owner_pc, join_slow,
                   clear_pending, relogin_clears,
                   relogin_remove_failed, trayVars, ipcVars>>

(* -------------------------- the hotkey recorder ------------------------ *)

\* The Qt keys pressed in the recorder, by the ranges _map_qt_key_to_string
\* tests: offset is qt_key - Qt.Key.Key_F1, char is chr(qt_key).
QtFunctionKey(n) == [range |-> "F1..F12", offset |-> n - 1]

QtLetterKey(char) == [range |-> "A..Z", char |-> char]

QtDigitKey(char) == [range |-> "0..9", char |-> char]

QtOtherKey(name) == [range |-> "other", name |-> name]

QtKeys ==
    {QtFunctionKey(1), QtFunctionKey(12), QtLetterKey("A"), QtDigitKey("0"),
     QtOtherKey("Key_Space"), QtOtherKey("Key_Return"),
     QtOtherKey("Key_PageUp"), QtOtherKey("Key_Minus"),
     QtOtherKey("Key_Backspace"), QtOtherKey("Key_Escape"),
     QtOtherKey("Key_Control"), QtOtherKey("Key_Up")}

\* Qt.KeyboardModifier flags of a key event.
QtModifiers == {"ControlModifier", "ShiftModifier", "AltModifier", "MetaModifier"}

DigitChars == <<"0", "1", "2", "3", "4", "5", "6", "7", "8", "9">>

\* str(n) for n >= 0
RECURSIVE Str(_)
Str(n) ==
    IF n < 10 THEN <<DigitChars[n + 1]>>
    ELSE Str(n \div 10) \o <<DigitChars[(n % 10) + 1]>>

\* The "mapping" dictionary of _map_qt_key_to_string, for the keys of QtKeys.
SpecialKeyText ==
    [Key_Space |-> <<"S", "P", "A", "C", "E">>, Key_Return |-> <<"E", "N", "T", "E", "R">>,
     Key_PageUp |-> <<"P", "A", "G", "E", "_", "U", "P">>, Key_Minus |-> <<"-">>]

\* HotkeyRecorder._map_qt_key_to_string(qt_key)
_map_qt_key_to_string(qt_key) ==
    IF qt_key.range = "F1..F12" THEN Some(<<"F">> \o Str(qt_key.offset + 1))
    ELSE IF qt_key.range = "A..Z" THEN Some(<<qt_key.char>>)
    ELSE IF qt_key.range = "0..9" THEN Some(<<qt_key.char>>)
    ELSE IF qt_key.name \in DOMAIN SpecialKeyText
         THEN Some(SpecialKeyText[qt_key.name])
    ELSE None

\* The modifier parts of keyPressEvent, in its order Ctrl, Shift, Alt, Meta.
ModifierParts(modifiers) ==
    (IF "ControlModifier" \in modifiers THEN <<<<"C", "T", "R", "L">>>> ELSE <<>>)
    \o (IF "ShiftModifier" \in modifiers THEN <<<<"S", "H", "I", "F", "T">>>> ELSE <<>>)
    \o (IF "AltModifier" \in modifiers THEN <<<<"A", "L", "T">>>> ELSE <<>>)
    \o (IF "MetaModifier" \in modifiers THEN <<<<"W", "I", "N">>>> ELSE <<>>)

\* "+".join(parts)
RECURSIVE JoinPlus(_)
JoinPlus(parts) ==
    IF parts = <<>> THEN <<>>
    ELSE IF Len(parts) = 1 THEN parts[1]
    ELSE parts[1] \o <<"+">> \o JoinPlus(Tail(parts))

\* HotkeyRecorder.keyPressEvent: the widget's text after the key event.
keyPressEvent(text, key, modifiers) ==
    IF key \in {QtOtherKey("Key_Backspace"), QtOtherKey("Key_Delete")} THEN <<>>
    ELSE IF key = QtOtherKey("Key_Escape") THEN text
    ELSE IF key \in {QtOtherKey("Key_Control"), QtOtherKey("Key_Shift"),
                     QtOtherKey("Key_Alt"), QtOtherKey("Key_Meta")}
         THEN text
    ELSE LET key_text == _map_qt_key_to_string(key)
         IN  IF key_text = None THEN text
             ELSE JoinPlus(Append(ModifierParts(modifiers), key_text[1]))

(* --------------------------- the socket listener ----------------------- *)

\* What a connecting process may send; the listener never reads it.
Payloads == {"", "toggle"}

\* The connections the kernel queues for a listening UNIX socket: one more
\* than the backlog given to listen().
QueueCapacity == LISTEN_BACKLOG + 1

\* Thread.is_alive() of the listener thread.
IpcAlive == ipc_thread \notin {"none", "unstarted", "done"}

\* os.remove(self.socket_path) when a file is there: it succeeds or raises
\* OSError, the environment decides.
RemoveOutcomes == {"removed", "OSError"}

\* A constructor that leaves a previous run's file where it is.
InitIgnoresStale(stale, outcome) == IF stale THEN "stale" ELSE "none"

\* IpcListener.__init__, lines 31-35: what is at the path afterwards, stale
\* telling whether a previous run left a file and outcome what os.remove did.
InitCleanup(stale, outcome) ==
    IF stale /\ outcome = "OSError" THEN "stale" ELSE "none"

\* start(): if not self._running: self._running = True; self._thread.start().
\* A Thread object that was started once raises RuntimeError from start(),
\* after _running has been set.
IpcStart ==
    /\ ipc_owner_pc = "idle"
    /\ IF _running
       THEN UNCHANGED <<_running, ipc_thread>>
       ELSE /\ _running' = TRUE
            /\ ipc_thread' = IF ipc_thread = "unstarted" THEN "socket" ELSE ipc_thread
    /\ UNCHANGED <<ipc_conn, socket_file, listening, backlog, ipc_owner_pc,
                   connections_made, ipc_accepted, ipc_emitted, ipc_stopped,
                   ipc_stop_raised, ipc_stale_at_init, ipc2_thread, ipc_remove_failed,
                   ipc_bind_saw_file, configVars, pollerVars, hotkeyVars, trayVars>>

\* stop() up to its connect: if self._running: self._running = False
IpcStop ==
    /\ ipc_owner_pc = "idle"
    /\ IF _running
       THEN /\ _running' = FALSE
            /\ ipc_owner_pc' = "stop_connect"
            /\ ipc_stopped' = TRUE
       ELSE UNCHANGED <<_running, ipc_owner_pc, ipc_stopped>>
    /\ UNCHANGED <<ipc_thread, ipc_conn, socket_file, listening, backlog,
                   connections_made, ipc_accepted, ipc_emitted,
                   ipc_stop_raised, ipc_stale_at_init, ipc2_thread, ipc_remove_failed,
                   ipc_bind_saw_file, configVars, pollerVars, hotkeyVars, trayVars>>

\* What s.connect(self.socket_path) of stop() does, the socket having a
\* timeout of 0.1 s: FileNotFoundError without a file, ConnectionRefusedError
\* with a file nobody listens on, BlockingIOError (EAGAIN) on a full queue.
\* A file bound by a second listener takes the connection to that listener.
ConnectOutcome ==
    IF socket_file = "none" THEN "FileNotFoundError"
    ELSE IF socket_file = "second" THEN "second"
    ELSE IF ~listening THEN "ConnectionRefusedError"
    ELSE IF Len(backlog) >= QueueCapacity THEN "BlockingIOError"
    ELSE "connected"

\* The exceptions stop() catches around its connect (line 55).
CaughtByStop == {"FileNotFoundError", "ConnectionRefusedError", "timeout"}

\* stop(), lines 51-57: the connection to its own socket.  An exception the
\* except clause does not name leaves stop() before the join.
IpcStopConnect ==
    /\ ipc_owner_pc = "stop_connect"
    /\ backlog' = IF ConnectOutcome = "connected"
                  THEN Append(backlog, [from |-> "stop", payload |-> ""])
                  ELSE backlog
    /\ IF ConnectOutcome \in {"connected", "second"} \cup CaughtByStop
       THEN ipc_owner_pc' = "stop_join" /\ UNCHANGED ipc_stop_raised
       ELSE ipc_owner_pc' = "idle" /\ ipc_stop_raised' = TRUE
    /\ UNCHANGED <<_running, ipc_thread, ipc_conn, socket_file, listening,
                   connections_made, ipc_accepted, ipc_emitted, ipc_stopped,
                   ipc_stale_at_init, ipc2_thread, ipc_remove_failed, ipc_bind_saw_file,
                   configVars, pollerVars, hotkeyVars, trayVars>>

\* Whether the listener thread can outlast the join: after the flag is
\* cleared it runs at most one accept, which waits no longer than its timeout.
IpcJoinMayTimeOut == IPC_ACCEPT_TIMEOUT_MS >= IPC_JOIN_TIMEOUT_MS

\* self._thread.join(timeout=2.0) returns, and stop() with it.
IpcJoinReturns ==
    /\ ipc_owner_pc = "stop_join"
    /\ ~IpcAlive \/ IpcJoinMayTimeOut
    /\ ipc_owner_pc' = "idle"
    /\ UNCHANGED <<_running, ipc_thread, ipc_conn, socket_file, listening,
                   backlog, connections_made, ipc_accepted, ipc_emitted,
                   ipc_stopped, ipc_stop_raised, ipc_stale_at_init, ipc2_thread,
                   ipc_remove_failed, ipc_bind_saw_file,
                   configVars, pollerVars, hotkeyVars, trayVars>>

\* Another process connects to the socket path.
ClientConnect(payload) ==
    /\ connections_made < MaxConnections
    /\ ConnectOutcome \in {"connected", "second"}
    /\ backlog' = IF ConnectOutcome = "connected"
                  THEN Append(backlog, [from |-> "client", payload |-> payload])
                  ELSE backlog
    /\ connections_made' = connections_made + 1
    /\ UNCHANGED <<_running, ipc_thread, ipc_conn, socket_file, listening,
                   ipc_owner_pc, ipc_accepted, ipc_emitted, ipc_stopped,
                   ipc_stop_raised, ipc_stale_at_init, ipc2_thread, ipc_remove_failed,
                   ipc_bind_saw_file, configVars, pollerVars, hotkeyVars, trayVars>>

\* _run, lines 63-68: server.bind(self.socket_path), listen(1), settimeout.
\* bind raises OSError (address in use) when a file is at the path; the
\* exception passes through the finally clause.
IpcBind ==
    /\ ipc_thread = "socket"
    /\ ipc_bind_saw_file' = (ipc_bind_saw_file \/ socket_file # "none")
    /\ IF socket_file # "none"
       THEN /\ ipc_thread' = "finally"
            /\ UNCHANGED <<socket_file, listening>>
       ELSE /\ ipc_thread' = "loop"
            /\ socket_file' = "own"
            /\ listening' = TRUE
    /\ UNCHANGED <<_running, ipc_conn, backlog, ipc_owner_pc, connections_made,
                   ipc_accepted, ipc_emitted, ipc_stopped, ipc_stop_raised,
                   ipc_stale_at_init, ipc2_thread, ipc_remove_failed,
                   configVars, pollerVars, hotkeyVars, trayVars>>

\* while self._running:
IpcLoopCondition == _running

IpcLoopCheck ==
    /\ ipc_thread = "loop"
    /\ ipc_thread' = IF IpcLoopCondition THEN "accept" ELSE "finally"
    /\ UNCHANGED <<_running, ipc_conn, socket_file, listening, backlog,
                   ipc_owner_pc, connections_made, ipc_accepted, ipc_emitted,
                   ipc_stopped, ipc_stop_raised, ipc_stale_at_init, ipc2_thread,
                   ipc_remove_failed, ipc_bind_saw_file,
                   configVars, pollerVars, hotkeyVars, trayVars>>

\* connection, _ = server.accept() returns the oldest queued connection.
IpcAccept ==
    /\ ipc_thread = "accept"
    /\ backlog # <<>>
    /\ ipc_conn' = Some([from |-> Head(backlog).from,
                          payload |-> Head(backlog).payload,
                          running |-> _running])
    /\ backlog' = Tail(backlog)
    /\ ipc_thread' = "accepted"
    /\ ipc_accepted' = IF _running /\ Head(backlog).from = "client"
                       THEN ipc_accepted + 1 ELSE ipc_accepted
    /\ UNCHANGED <<_running, socket_file, listening, ipc_owner_pc,
                   connections_made, ipc_emitted, ipc_stopped, ipc_stop_raised,
                   ipc_stale_at_init, ipc2_thread, ipc_remove_failed, ipc_bind_saw_file,
                   configVars, pollerVars, hotkeyVars, trayVars>>

\* except socket.timeout: continue -- nothing was queued for 1 s.
IpcAcceptTimeout ==
    /\ ipc_thread = "accept"
    /\ backlog = <<>>
    /\ ipc_thread' = "loop"
    /\ UNCHANGED <<_running, ipc_conn, socket_file, listening, backlog,
                   ipc_owner_pc, connections_made, ipc_accepted, ipc_emitted,
                   ipc_stopped, ipc_stop_raised, ipc_stale_at_init, ipc2_thread,
                   ipc_remove_failed, ipc_bind_saw_file,
                   configVars, pollerVars, hotkeyVars, trayVars>>

\* A handler that never emits.
EmitOnAcceptNever == FALSE

\* Line 76, after connection.close(): if self._running:
EmitOnAccept == _running

\* connection.close(); if self._running: self.toggle_visibility_requested.emit()
\* The signal is connected to TrayIcon.toggle_visibility.
IpcHandle ==
    /\ ipc_thread = "accepted"
    /\ ipc_conn' = None
    /\ ipc_thread' = "loop"
    /\ IF EmitOnAccept
       THEN /\ ipc_emitted' = ipc_emitted + 1
            /\ _user_wants_visible' = toggle_visibility(_user_wants_visible)
            /\ UpdateUi(TRUE)
       ELSE UNCHANGED <<ipc_emitted, trayVars>>
    /\ UNCHANGED <<_running, socket_file, listening, backlog, ipc_owner_pc,
                   connections_made, ipc_accepted, ipc_stopped, ipc_stop_raised,
                   ipc_stale_at_init, ipc2_thread, ipc_remove_failed, ipc_bind_saw_file,
                   configVars, pollerVars, hotkeyVars>>

\* finally: server.close() -- queued connections are dropped.
IpcServerClose ==
    /\ ipc_thread = "finally"
    /\ ipc_thread' = "remove"
    /\ listening' = FALSE
    /\ backlog' = <<>>
    /\ UNCHANGED <<_running, ipc_conn, socket_file, ipc_owner_pc,
                   connections_made, ipc_accepted, ipc_emitted, ipc_stopped,
                   ipc_stop_raised, ipc_stale_at_init, ipc2_thread, ipc_remove_failed,
                   ipc_bind_saw_file, configVars, pollerVars, hotkeyVars, trayVars>>

\* finally: if os.path.exists(self.socket_path): os.remove(self.socket_path);
\* then _run returns (or ends with the OSError of the remove).
IpcRemoveSocket(outcome) ==
    /\ ipc_thread = "remove"
    /\ ipc_thread' = "done"
    /\ IF socket_file = "none"
       THEN UNCHANGED <<socket_file, ipc_remove_failed>>
       ELSE /\ socket_file' = IF outcome = "removed" THEN "none" ELSE socket_file
            /\ ipc_remove_failed' = (ipc_remove_failed \/ outcome = "OSError")
    /\ UNCHANGED <<_running, ipc_conn, listening, backlog, ipc_owner_pc,
                   connections_made, ipc_accepted, ipc_emitted, ipc_stopped,
                   ipc_stop_raised, ipc_stale_at_init, ipc2_thread, ipc_bind_saw_file,
                   configVars, pollerVars, hotkeyVars, trayVars>>

\* The actions of the first listener leave the second one alone.
SecondUnchanged ==
    UNCHANGED <<_running, ipc_thread, ipc_conn, listening, backlog,
                ipc_owner_pc, connections_made, ipc_accepted, ipc_emitted,
                ipc_stopped, ipc_stop_raised, ipc_stale_at_init,
                ipc_remove_failed, ipc_bind_saw_file,
                configVars, pollerVars, hotkeyVars, trayVars>>

\* IpcListener.__init__ of a second listener on the same path, lines 31-35:
\* whatever file is at the path is removed, unless os.remove raises.
SecondInit(outcome) ==
    /\ ipc_thread # "none"
    /\ ipc2_thread = "none"
    /\ ipc2_thread' = "unstarted"
    /\ socket_file' = IF socket_file # "none" /\ outcome = "removed"
                      THEN "none" ELSE socket_file
    /\ SecondUnchanged

\* start() of the second listener.
SecondStart ==
    /\ ipc2_thread = "unstarted"
    /\ ipc2_thread' = "socket"
    /\ UNCHANGED socket_file
    /\ SecondUnchanged

\* _run of the second listener, lines 63-68: bind() creates its own file at
\* the path, or raises OSError when a file is there.
SecondBind ==
    /\ ipc2_thread = "socket"
    /\ IF socket_file # "none"
       THEN ipc2_thread' = "finally" /\ UNCHANGED socket_file
       ELSE ipc2_thread' = "loop" /\ socket_file' = "second"
    /\ SecondUnchanged

\* The finally clause of the second listener's _run after a failed bind,
\* lines 86-89: it removes whatever file is at the path.
SecondRemoveSocket(outcome) ==
    /\ ipc2_thread = "finally"
    /\ ipc2_thread' = "done"
    /\ socket_file' = IF socket_file # "none" /\ outcome = "removed"
                      THEN "none" ELSE socket_file
    /\ SecondUnchanged

SecondListenerStep ==
    \/ \E outcome \in RemoveOutcomes : SecondInit(outcome)
    \/ SecondStart
    \/ SecondBind
    \/ \E outcome \in RemoveOutcomes : SecondRemoveSocket(outcome)

(* --------------------------- specifications ---------------------------- *)

\* The shared AppConfig object that load_config() returned.
SHARED_OBJ == 1

\* ConfigureWindow._defaults, from get_default_config().
DEFAULTS_OBJ == 2

\* config.py: DEFAULT_HOTKEY = "F7"
DEFAULT_HOTKEY == <<"F", "7">>

DefaultConfig ==
    [client_id |-> "", hotkey |-> DEFAULT_HOTKEY,
     poll_interval_ms |-> DEFAULT_SPOTIFY_POLL_INTERVAL]

\* After load_config() and SpotifyClient.__init__: one shared AppConfig object
\* holding the loaded values, the client initialised when a client id is
\* present (unless the PKCE set-up failed).
InitConfig(client_ids, hotkeys, polls) ==
    /\ \E cid \in client_ids, hk \in hotkeys, pi \in polls :
          /\ objs = [o \in {SHARED_OBJ, DEFAULTS_OBJ} |->
                        IF o = SHARED_OBJ
                        THEN [client_id |-> cid, hotkey |-> hk,
                              poll_interval_ms |-> pi]
                        ELSE DefaultConfig]
          /\ _poll_interval = ClampPollInterval(pi)
          /\ _sp \in (IF cid = "" THEN {FALSE} ELSE {TRUE, FALSE})
    /\ app_config = SHARED_OBJ
    /\ client_config = SHARED_OBJ
    /\ _shared_config = SHARED_OBJ

\* After SpotifyClient.__init__: no poller thread, nothing emitted yet.
InitPoller ==
    /\ _thread = 0
    /\ _stop_event = FALSE
    /\ _last_state = None
    /\ cache_exists \in BOOLEAN
    /\ threads = [t \in ThreadSlots |-> Unborn]
    /\ owner_pc = "idle"
    /\ owner_last = "none"
    /\ join_slow = FALSE
    /\ clear_pending = FALSE
    /\ relogin_clears = 0
    /\ relogin_remove_failed = FALSE
    /\ initial_fetches = 0
    /\ initial_emitted = <<>>
    /\ initial_prev = None

\* TrayIcon.__init__: the window has just shown its placeholder, so
\* window.isVisible() is true.
InitTray ==
    /\ _user_wants_visible = TRUE
    /\ window_visible = TRUE
    /\ _last_np = None
    /\ was_visible_before_relogin = FALSE
    /\ setup_window = "none"

\* No IpcListener object exists (ipc_thread = "none") and nothing is at the
\* path.
InitNoIpcListener ==
    /\ _running = FALSE
    /\ ipc_thread = "none"
    /\ ipc_conn = None
    /\ socket_file = "none"
    /\ listening = FALSE
    /\ backlog = <<>>
    /\ ipc_owner_pc = "idle"
    /\ connections_made = 0
    /\ ipc_accepted = 0
    /\ ipc_emitted = 0
    /\ ipc_stopped = FALSE
    /\ ipc_stop_raised = FALSE
    /\ ipc_stale_at_init = FALSE
    /\ ipc_remove_failed = FALSE
    /\ ipc_bind_saw_file = FALSE
    /\ ipc2_thread = "none"

\* After IpcListener.__init__: the thread object exists and is not started;
\* a file a previous run left has been removed unless os.remove failed.
InitIpcListener ==
    /\ _running = FALSE
    /\ ipc_thread = "unstarted"
    /\ ipc_conn = None
    /\ \E stale \in BOOLEAN, outcome \in RemoveOutcomes :
          /\ socket_file = InitCleanup(stale, outcome)
          /\ ipc_stale_at_init = stale
          /\ ipc_remove_failed = (stale /\ outcome = "OSError")
    /\ listening = FALSE
    /\ backlog = <<>>
    /\ ipc_owner_pc = "idle"
    /\ connections_made = 0
    /\ ipc_accepted = 0
    /\ ipc_emitted = 0
    /\ ipc_stopped = FALSE
    /\ ipc_stop_raised = FALSE
    /\ ipc_bind_saw_file = FALSE
    /\ ipc2_thread = "none"

\* On Linux no HotkeyManager is created (_setup_platform_integrations).
InitNoHotkeyManager ==
    /\ hotkey_config = 0
    /\ _target_keys = {}
    /\ _current_keys = {}
    /\ _listener = FALSE
    /\ pressed = {}
    /\ listener_hotkey = <<>>
    /\ key_log = <<>>
    /\ key_log_base = {}

\* Elsewhere: HotkeyManager(self.config) and its first start_listener().
InitHotkeyManager ==
    LET hotkey_str == objs[SHARED_OBJ].hotkey
        parsed == _parse_hotkey_string(hotkey_str)
    IN  /\ hotkey_config = SHARED_OBJ
        /\ _target_keys = parsed
        /\ _current_keys = {}
        /\ _listener = (parsed # {})
        /\ pressed = {}
        /\ listener_hotkey = hotkey_str
        /\ key_log = <<>>
        /\ key_log_base = {}

Init ==
    /\ platform = "linux"
    /\ InitConfig({"", "id"}, {DEFAULT_HOTKEY}, PollChoices)
    /\ InitPoller
    /\ InitNoHotkeyManager
    /\ InitTray
    /\ InitNoIpcListener

ThreadStep ==
    \E t \in ThreadSlots :
        \/ LoopCheck(t)
        \/ \E v \in FetchValues : CallReturns(t, v)
        \/ CallRaisesSpotifyException(t)
        \/ CallRaisesException(t)
        \/ BackoffDone(t)
        \/ Compare(t)
        \/ Emit(t)
        \/ Store(t)
        \/ SleepDone(t)

OwnerStep ==
    \/ StartPolling
    \/ Stop
    \/ JoinDone
    \/ JoinTimeout
    \/ Relogin
    \/ ReloginClearUi
    \/ ReloginReset
    \/ ReloginRemoveCache
    \/ ReloginStartPolling
    \/ \E o1, o2 \in AttemptOutcomes : InitialFetchAndEmit(o1, o2)
    \/ \E ok \in BOOLEAN : UpdateCredentials(ok)
    \/ \E pi \in PollChoices :
          OnSave(objs[_shared_config].client_id, objs[_shared_config].hotkey, pi)

Next == ThreadStep \/ OwnerStep

\* The polling client with its owner, on Linux.
Spec == Init /\ [][Next]_vars

InitHotkey ==
    /\ platform = "win32"
    /\ InitConfig({"id"}, HotkeyStrings, {DEFAULT_SPOTIFY_POLL_INTERVAL})
    /\ InitPoller
    /\ _sp = TRUE
    /\ cache_exists = FALSE
    /\ InitHotkeyManager
    /\ InitTray
    /\ InitNoIpcListener

NextHotkey ==
    \/ \E key \in RawKeys : KeyDown(key)
    \/ \E key \in RawKeys : KeyUp(key)
    \/ \E hotkey \in HotkeyStrings :
          OnSave(objs[_shared_config].client_id, hotkey,
                 objs[_shared_config].poll_interval_ms)

\* The hotkey manager with the configure window's save flow, off Linux.
SpecHotkey == InitHotkey /\ [][NextHotkey]_vars

InitIpc ==
    /\ platform = "linux"
    /\ InitConfig({"id"}, {DEFAULT_HOTKEY}, {DEFAULT_SPOTIFY_POLL_INTERVAL})
    /\ InitPoller
    /\ _sp = TRUE
    /\ cache_exists = FALSE
    /\ InitNoHotkeyManager
    /\ InitTray
    /\ InitIpcListener

IpcThreadStep ==
    \/ IpcBind
    \/ IpcLoopCheck
    \/ IpcAccept
    \/ IpcAcceptTimeout
    \/ IpcHandle
    \/ IpcServerClose
    \/ \E outcome \in RemoveOutcomes : IpcRemoveSocket(outcome)

IpcStopStep == IpcStopConnect \/ IpcJoinReturns

NextIpc ==
    \/ IpcStart
    \/ IpcStop
    \/ IpcStopStep
    \/ \E payload \in Payloads : ClientConnect(payload)
    \/ IpcThreadStep

\* The socket listener with its owner and the connecting processes, on Linux.
SpecIpc == InitIpc /\ [][NextIpc]_vars

NextIpcSecond ==
    \/ NextIpc
    \/ SecondListenerStep

\* The socket listener while a second IpcListener is constructed and started
\* on the same path.
SpecIpcSecond == InitIpc /\ [][NextIpcSecond]_vars

\* The same, every thread that can take a step eventually taking one.
SpecIpcFair == SpecIpc /\ WF_vars(IpcThreadStep) /\ WF_vars(IpcStopStep)

\* A configured client whose API client was initialised, before run().
InitFair ==
    /\ platform = "linux"
    /\ InitConfig({"id"}, {DEFAULT_HOTKEY}, {DEFAULT_SPOTIFY_POLL_INTERVAL})
    /\ InitPoller
    /\ _sp = TRUE
    /\ cache_exists = FALSE
    /\ InitNoHotkeyManager
    /\ InitTray
    /\ InitNoIpcListener

JoinReturns == JoinDone \/ JoinTimeout

NextFair ==
    \/ ThreadStep
    \/ StartPolling
    \/ Stop
    \/ JoinReturns
    \/ Relogin
    \/ ReloginClearUi
    \/ ReloginReset
    \/ ReloginRemoveCache
    \/ ReloginStartPolling

\* The polling loop with the owner's start, stop and relogin; every thread
\* that can take a step eventually takes one and every join returns.
SpecFair ==
    InitFair /\ [][NextFair]_vars /\ WF_vars(ThreadStep) /\ WF_vars(JoinReturns)

InitInterval ==
    /\ platform = "linux"
    /\ InitConfig({"id"}, {DEFAULT_HOTKEY}, StoredPollIntervals)
    /\ InitPoller
    /\ _sp = TRUE
    /\ cache_exists = FALSE
    /\ InitNoHotkeyManager
    /\ InitTray
    /\ InitNoIpcListener

NextInterval ==
    \/ ThreadStep
    \/ StartPolling
    \/ \E pi \in PollChoices :
          OnSave(objs[_shared_config].client_id, objs[_shared_config].hotkey, pi)

\* The polling loop of a client constructed from a stored configuration,
\* with the configure window's saves.
SpecInterval == InitInterval /\ [][NextInterval]_vars

InitStartListener ==
    /\ platform = "win32"
    /\ InitConfig({"id"}, ParseInputs, {DEFAULT_SPOTIFY_POLL_INTERVAL})
    /\ InitPoller
    /\ _sp = TRUE
    /\ cache_exists = FALSE
    /\ InitHotkeyManager
    /\ InitTray
    /\ InitNoIpcListener

NextStartListener ==
    \/ KeyDown(KEY_B)
    \/ KeyUp(KEY_B)
    \/ \E hotkey \in ParseInputs :
          OnSave(objs[_shared_config].client_id, hotkey,
                 objs[_shared_config].poll_interval_ms)
    \/ StartListenerCall

\* The hotkey manager whose owner calls start_listener() again after a save,
\* off Linux.
SpecStartListener == InitStartListener /\ [][NextStartListener]_vars

NextParse ==
    \/ \E hotkey \in ParseInputs :
          OnSave(objs[_shared_config].client_id, hotkey,
                 objs[_shared_config].poll_interval_ms)
    \/ StartListenerCall

\* The same with no key pressed: hotkey strings are saved and parsed.
SpecParse == InitStartListener /\ [][NextParse]_vars

InitRecorder ==
    /\ platform = "win32"
    /\ InitConfig({"id"}, {DEFAULT_HOTKEY}, {DEFAULT_SPOTIFY_POLL_INTERVAL})
    /\ InitPoller
    /\ _sp = TRUE
    /\ cache_exists = FALSE
    /\ InitHotkeyManager
    /\ InitTray
    /\ InitNoIpcListener

\* The configure window shows the configured hotkey, the user presses one
\* key combination in the recorder and saves.
RecordAndSave ==
    \E key \in QtKeys, modifiers \in SUBSET QtModifiers :
        OnSave(objs[_shared_config].client_id,
               keyPressEvent(objs[_shared_config].hotkey, key, modifiers),
               objs[_shared_config].poll_interval_ms)

NextRecorder == RecordAndSave \/ StartListenerCall

\* The hotkey recorder of the configure window feeding the hotkey manager,
\* off Linux.
SpecRecorder == InitRecorder /\ [][NextRecorder]_vars

(* ---------------------------- the application ------------------------- *)

\* _setup_platform_integrations, line 117: if sys.platform == "linux"
CreatesIpcListener(p) == p = "linux"

\* A set-up that creates the hotkey manager on every platform.
CreatesHotkeyManagerAlways(p) == TRUE

\* _setup_platform_integrations, line 123: the else branch.
CreatesHotkeyManager(p) == ~CreatesIpcListener(p)

\* SpoverlayApp.hotkey_manager is not None / ipc_listener is not None
HotkeyManagerExists == hotkey_config # 0

IpcListenerExists == ipc_thread # "none"

\* _setup_platform_integrations(): IpcListener(IPC_SOCKET_PATH) and start()
\* on Linux, HotkeyManager(self.config) and start_listener() elsewhere.
SetupPlatformIntegrations ==
    /\ ~HotkeyManagerExists /\ ~IpcListenerExists
    /\ owner_pc = "idle"
    /\ IF CreatesIpcListener(platform)
       THEN /\ \E outcome \in RemoveOutcomes :
                  /\ socket_file' = InitCleanup(socket_file = "stale", outcome)
                  /\ ipc_remove_failed' =
                         (socket_file = "stale" /\ outcome = "OSError")
            /\ ipc_stale_at_init' = (socket_file = "stale")
            /\ _running' = TRUE
            /\ ipc_thread' = "socket"
            /\ UNCHANGED <<ipc_conn, listening, backlog, ipc_owner_pc,
                           connections_made, ipc_accepted, ipc_emitted,
                           ipc_stopped, ipc_stop_raised, ipc_bind_saw_file,
                           ipc2_thread>>
       ELSE UNCHANGED ipcVars
    /\ IF CreatesHotkeyManager(platform)
       THEN /\ hotkey_config' = app_config
            /\ StartListener(objs[app_config].hotkey)
            /\ UNCHANGED <<_current_keys, pressed>>
       ELSE UNCHANGED hotkeyVars
    /\ UNCHANGED <<configVars, pollerVars, trayVars>>

\* TrayIcon._on_toggle_visibility_from_menu(checked), the user having clicked
\* the check box that showed the current preference.
OnToggleVisibilityFromMenu ==
    /\ _user_wants_visible' = ~_user_wants_visible
    /\ UpdateUi(TRUE)
    /\ UNCHANGED <<configVars, pollerVars, hotkeyVars, ipcVars>>

\* SpoverlayApp.__init__ before _setup_platform_integrations: neither
\* activation strategy exists; a previous run may have left a socket file.
InitApp ==
    /\ platform \in {"linux", "win32", "darwin"}
    /\ InitConfig({"id"}, {DEFAULT_HOTKEY}, {DEFAULT_SPOTIFY_POLL_INTERVAL})
    /\ InitPoller
    /\ _sp = TRUE
    /\ cache_exists = FALSE
    /\ InitNoHotkeyManager
    /\ InitTray
    /\ _running = FALSE
    /\ ipc_thread = "none"
    /\ ipc_conn = None
    /\ socket_file \in {"none", "stale"}
    /\ listening = FALSE
    /\ backlog = <<>>
    /\ ipc_owner_pc = "idle"
    /\ connections_made = 0
    /\ ipc_accepted = 0
    /\ ipc_emitted = 0
    /\ ipc_stopped = FALSE
    /\ ipc_stop_raised = FALSE
    /\ ipc_stale_at_init = FALSE
    /\ ipc_remove_failed = FALSE
    /\ ipc_bind_saw_file = FALSE
    /\ ipc2_thread = "none"

\* What the user and the threads do once the application is set up; of the
\* polling loop that relogin() starts only the test at the top of the loop is
\* followed, a thread that passed it staying inside its fetch.
AppStep ==
    \/ \E hotkey \in {DEFAULT_HOTKEY, <<"b">>} :
          OnSave(objs[_shared_config].client_id, hotkey,
                 objs[_shared_config].poll_interval_ms)
    \/ Relogin
    \/ JoinReturns
    \/ ReloginClearUi
    \/ ReloginReset
    \/ ReloginRemoveCache
    \/ ReloginStartPolling
    \/ \E t \in ThreadSlots : LoopCheck(t)
    \/ OnToggleVisibilityFromMenu
    \/ KeyDown(KEY_B)
    \/ KeyUp(KEY_B)
    \/ \E payload \in Payloads : ClientConnect(payload)
    \/ IpcThreadStep

NextApp ==
    \/ SetupPlatformIntegrations
    \/ (HotkeyManagerExists \/ IpcListenerExists) /\ AppStep

\* The application from its set-up on, on each platform.
SpecApp == InitApp /\ [][NextApp]_vars

(* ------------------------------ the set-up ----------------------------- *)

\* A normal operation that goes to start_polling() at once.
StartsWithPolling == "normal_start"

\* Where the owner stands when _start_normal_operation() is entered: before
\* its first call, initial_fetch_and_emit().
StartsWith == "normal_fetch"

\* run(): without a client id the set-up window is shown, otherwise
\* _start_normal_operation() begins.
Run ==
    /\ owner_pc = "idle"
    /\ owner_last = "none"
    /\ setup_window = "none"
    /\ IF ~is_configured
       THEN setup_window' = "open" /\ UNCHANGED owner_pc
       ELSE owner_pc' = StartsWith /\ UNCHANGED setup_window
    /\ owner_last' = "other"
    /\ UNCHANGED <<_user_wants_visible, window_visible, _last_np,
                   was_visible_before_relogin, _sp, _thread, _stop_event,
                   _last_state, _poll_interval, cache_exists, threads,
                   join_slow, clear_pending, relogin_clears,
                   relogin_remove_failed, initialVars, configVars,
                   hotkeyVars, ipcVars>>

\* SetupWindow._on_save with a 32-character id emits client_id_saved, and
\* _on_setup_completed(client_id) runs: the id is written into the
\* configuration and saved, update_credentials() initialises the API client
\* (ok tells whether the PKCE set-up succeeded), and
\* _start_normal_operation() begins.
OnSetupCompleted(ok) ==
    /\ owner_pc = "idle"
    /\ setup_window = "open"
    /\ setup_window' = "saved"
    /\ objs' = [objs EXCEPT ![app_config].client_id = "id",
                            ![client_config].client_id = "id"]
    /\ _sp' = ok
    /\ owner_pc' = StartsWith
    /\ owner_last' = "other"
    /\ InitialHistoryReset
    /\ UNCHANGED <<platform, app_config, client_config, _shared_config,
                   _user_wants_visible, window_visible, _last_np,
                   was_visible_before_relogin, _thread, _stop_event,
                   _last_state, _poll_interval, cache_exists, threads,
                   join_slow, clear_pending, relogin_clears,
                   relogin_remove_failed, hotkeyVars, ipcVars>>

\* _start_normal_operation(), line 109: self.spotify_client.initial_fetch_and_emit()
NormalInitialFetch(o1, o2) ==
    /\ owner_pc = "normal_fetch"
    /\ InitialFetchBody(o1, o2)
    /\ owner_pc' = "normal_start"
    /\ owner_last' = "initial_fetch"
    /\ UNCHANGED <<_sp, _thread, _stop_event, _poll_interval, threads,
                   join_slow, relogin_clears, relogin_remove_failed,
                   configVars, hotkeyVars, trayVars, ipcVars>>

\* _start_normal_operation(), line 112: self.spotify_client.start_polling()
NormalStartPolling ==
    /\ owner_pc = "normal_start"
    /\ StartPollingBody
    /\ owner_pc' = "idle"
    /\ owner_last' = "start_polling"
    /\ InitialHistoryReset
    /\ UNCHANGED <<_sp, _last_state, _poll_interval, cache_exists, join_slow,
                   clear_pending, relogin_clears, relogin_remove_failed,
                   configVars, hotkeyVars, trayVars, ipcVars>>

\* The Quit button: reject(), and _on_setup_cancelled() calls
\* QApplication.quit().
OnSetupCancelled ==
    /\ owner_pc = "idle"
    /\ setup_window = "open"
    /\ setup_window' = "rejected"
    /\ UNCHANGED <<_user_wants_visible, window_visible, _last_np,
                   was_visible_before_relogin, configVars, pollerVars,
                   hotkeyVars, ipcVars>>

\* _on_about_to_quit() after the quit, no activation strategy having been
\* created: self.spotify_client.stop().
OnAboutToQuit ==
    /\ setup_window = "rejected"
    /\ ~HotkeyManagerExists /\ ~IpcListenerExists
    /\ Stop

InitSetup ==
    /\ platform = "linux"
    /\ InitConfig({"", "id"}, {DEFAULT_HOTKEY}, {DEFAULT_SPOTIFY_POLL_INTERVAL})
    /\ InitPoller
    /\ InitNoHotkeyManager
    /\ InitTray
    /\ InitNoIpcListener

\* What runs while the application has not quit: the set-up window's two
\* buttons, the start of normal operation, the tray's relogin and configure
\* window, and the polling loop.
SetupStep ==
    /\ owner_last # "none"
    /\ setup_window # "rejected"
    /\ \/ \E ok \in BOOLEAN : OnSetupCompleted(ok)
       \/ OnSetupCancelled
       \/ \E o1, o2 \in AttemptOutcomes : NormalInitialFetch(o1, o2)
       \/ NormalStartPolling
       \/ Relogin
       \/ JoinReturns
       \/ ReloginClearUi
       \/ ReloginReset
       \/ ReloginRemoveCache
       \/ ReloginStartPolling
       \/ \E client_id \in {"", "id"} :
             OnSave(client_id, objs[_shared_config].hotkey,
                    objs[_shared_config].poll_interval_ms)
       \/ ThreadStep

NextSetup ==
    \/ Run
    \/ SetupStep
    \/ OnAboutToQuit

\* The application from run() on, started with or without a client id.
SpecSetup == InitSetup /\ [][NextSetup]_vars

(* --------------------------- the overlay window ------------------------ *)

\* The slot OverlayWindow.set_now_playing(np) runs for a now_playing_updated
\* that a poller thread emitted; it runs on the main thread, between the
\* owner's handlers.
WindowSetNowPlaying(np) ==
    /\ owner_pc = "idle"
    /\ _last_np' = np
    /\ window_visible' = ShownAfterSetNowPlaying(_user_wants_visible, np)
    /\ UNCHANGED <<_user_wants_visible, was_visible_before_relogin,
                   setup_window, configVars, pollerVars, hotkeyVars, ipcVars>>

\* TrayIcon._on_activated(Trigger), a left click on the tray icon:
\* toggle_visibility(), on the main thread between the owner's handlers.
OnActivated ==
    /\ owner_pc = "idle"
    /\ _user_wants_visible' = toggle_visibility(_user_wants_visible)
    /\ UpdateUi(TRUE)
    /\ UNCHANGED <<configVars, pollerVars, hotkeyVars, ipcVars>>

InitWindow ==
    /\ platform = "linux"
    /\ InitConfig({"id"}, {DEFAULT_HOTKEY}, {DEFAULT_SPOTIFY_POLL_INTERVAL})
    /\ InitPoller
    /\ _sp = TRUE
    /\ cache_exists = FALSE
    /\ InitNoHotkeyManager
    /\ InitTray
    /\ InitNoIpcListener

NextWindow ==
    \/ \E np \in FetchValues : WindowSetNowPlaying(np)
    \/ OnActivated
    \/ Relogin
    \/ JoinReturns
    \/ ReloginClearUi
    \/ ReloginReset
    \/ ReloginRemoveCache
    \/ ReloginStartPolling
    \/ \E t \in ThreadSlots : LoopCheck(t)

\* The overlay window under snapshot updates, the tray's visibility toggle
\* and the tray's relogin.
SpecWindow == InitWindow /\ [][NextWindow]_vars

(* -------------------------- the configuration file -------------------- *)

\* config.py: DEFAULT_SPOTIFY_REDIRECT_URI
DEFAULT_SPOTIFY_REDIRECT_URI == "http://127.0.0.1:8080/callback"

\* get_default_config(): the persisted fields of the AppConfig it returns.
get_default_config ==
    [client |-> [client_id |-> "",
                 redirect_uri |-> DEFAULT_SPOTIFY_REDIRECT_URI,
                 poll_interval_ms |-> DEFAULT_SPOTIFY_POLL_INTERVAL],
     ui |-> [position |-> "top-right", margin |-> 24, click_through |-> TRUE,
             art_size |-> 64, hotkey |-> DEFAULT_HOTKEY]]

\* dict.get(key, default) on a table of the parsed TOML document.
Get(table, key, default) == IF key \in DOMAIN table THEN table[key] ELSE default

\* save_config(config): the document toml.dump writes, a table "client" and
\* a table "ui".
save_config(config) ==
    [client |-> [client_id |-> config.client.client_id,
                 redirect_uri |-> config.client.redirect_uri,
                 poll_interval_ms |-> config.client.poll_interval_ms],
     ui |-> [position |-> config.ui.position,
             margin |-> config.ui.margin,
             click_through |-> config.ui.click_through,
             art_size |-> config.ui.art_size,
             hotkey |-> config.ui.hotkey]]

\* load_config() on an existing file that parses to user_config: the
\* defaults, overwritten by what the document holds.  str(), int() and
\* bool() leave values of their own type as they are.  poll_interval_ms is
\* looked up in user_config itself, not in client_section (line 113).
load_config(user_config) ==
    LET config == get_default_config
        ui_section == Get(user_config, "ui", <<>>)
        client_section == Get(user_config, "client", <<>>)
    IN  [client |->
            [client_id |-> Get(client_section, "client_id", config.client.client_id),
             redirect_uri |->
                 Get(client_section, "redirect_uri", config.client.redirect_uri),
             poll_interval_ms |->
                 Get(user_config, "poll_interval_ms", config.client.poll_interval_ms)],
         ui |->
            [position |-> Get(ui_section, "position", config.ui.position),
             margin |-> Get(ui_section, "margin", config.ui.margin),
             click_through |-> Get(ui_section, "click_through", config.ui.click_through),
             art_size |-> Get(ui_section, "art_size", config.ui.art_size),
             hotkey |-> Get(ui_section, "hotkey", config.ui.hotkey)]]

\* The values the configure window offers (configure_window.py): the four
\* corners, and some values of each other field.
ValidConfigs ==
    [client : [client_id : {"", "id"},
               redirect_uri : {DEFAULT_SPOTIFY_REDIRECT_URI,
                               "http://localhost:9000/callback"},
               poll_interval_ms : PollChoices],
     ui : [position : {"top-left", "top-right", "bottom-left", "bottom-right"},
           margin : {0, 24},
           click_through : BOOLEAN,
           art_size : {64, 128},
           hotkey : {DEFAULT_HOTKEY, <<"b">>}]]

\* The application holds some valid configuration; here the heap object is
\* the whole AppConfig, client and ui sections.
InitConfigFile ==
    /\ platform = "linux"
    /\ \E c \in ValidConfigs :
          /\ objs = [o \in {SHARED_OBJ, DEFAULTS_OBJ} |->
                        IF o = SHARED_OBJ THEN c ELSE get_default_config]
          /\ _poll_interval = ClampPollInterval(c.client.poll_interval_ms)
          /\ _sp = (c.client.client_id # "")
    /\ app_config = SHARED_OBJ
    /\ client_config = SHARED_OBJ
    /\ _shared_config = SHARED_OBJ
    /\ InitPoller
    /\ cache_exists = FALSE
    /\ InitNoHotkeyManager
    /\ InitTray
    /\ InitNoIpcListener

\* save_config(self.config) writes the file and the next start of the
\* application reads it back with load_config().
SaveThenLoad ==
    /\ objs' = [objs EXCEPT ![SHARED_OBJ] = load_config(save_config(@))]
    /\ _poll_interval' =
           ClampPollInterval(objs'[SHARED_OBJ].client.poll_interval_ms)
    /\ UNCHANGED <<platform, app_config, client_config, _shared_config, _sp,
                   _thread, _stop_event, _last_state, cache_exists, threads,
                   owner_pc, owner_last, join_slow, clear_pending,
                   relogin_clears, relogin_remove_failed, initial_fetches,
                   initial_emitted, initial_prev, hotkeyVars, trayVars, ipcVars>>

\* ConfigureWindow._on_save, lines 189-196: the widgets' values are written
\* into the configuration.
SaveWidgets(c) ==
    /\ objs' = [objs EXCEPT ![SHARED_OBJ] = c]
    /\ _poll_interval' = ClampPollInterval(c.client.poll_interval_ms)
    /\ UNCHANGED <<platform, app_config, client_config, _shared_config, _sp,
                   _thread, _stop_event, _last_state, cache_exists, threads,
                   owner_pc, owner_last, join_slow, clear_pending,
                   relogin_clears, relogin_remove_failed, initial_fetches,
                   initial_emitted, initial_prev, hotkeyVars, trayVars, ipcVars>>

NextConfigFile ==
    \/ SaveThenLoad
    \/ \E c \in ValidConfigs : SaveWidgets(c)

\* The persisted configuration across saves and restarts.
SpecConfigFile == InitConfigFile /\ [][NextConfigFile]_vars

(* ------------------------------- claims -------------------------------- *)

\* C1: within one run of the polling loop, a fetch result equal to the run's
\* previous fetch result is never emitted (None equal to None included).
C1_RepeatNotEmitted ==
    \A t \in ThreadSlots :
        (threads[t].emitted /\ threads[t].has_prev)
            => threads[t].current_state # threads[t].prev

\* C2: a run's emissions are its fetch results minus every result equal to its
\* predecessor, the predecessor of the first being the _last_state the run
\* started from: a processed result was emitted iff it differs from its
\* predecessor.
C2_EmissionsAreDedupedFetches ==
    \A t \in ThreadSlots :
        threads[t].pc \in {"store", "sleep"}
            => (threads[t].emitted <=> threads[t].current_state # threads[t].prev)

C4_FailedCycleEmitsNothing ==
    \A t \in ThreadSlots :
        threads[t].api_errors = 2 => threads[t].pc \notin {"emit", "store"} /\ ~threads[t].emitted

\* C5: once relogin() has returned on an initialised client, a polling loop
\* is alive and the stop signal is clear.
C5_ReloginLeavesLoopRunning ==
    (owner_pc = "idle" /\ owner_last = "relogin")
        => (AlreadyPolling /\ ~_stop_event)

\* C6: a relogin() emits clear_ui_requested exactly once, and the first
\* now_playing_updated after it carries a fetch begun after the reset of
\* _last_state.
C6_FreshAfterClear ==
    /\ (owner_pc = "idle" /\ owner_last = "relogin") => relogin_clears = 1
    /\ \A t \in ThreadSlots :
          (threads[t].emitted /\ threads[t].after_clear) => ~threads[t].stale

\* C7: between the return of relogin()'s stop() and its start_polling(), no
\* poller is inside a cycle (fetching, emitting or about to store).
C7_NoCycleDuringRelogin ==
    owner_pc \in {"relogin_clear", "relogin_reset", "relogin_cache", "relogin_start"}
        => \A t \in ThreadSlots : ~InCycle(t)

\* The held set before the i-th logged event.
HeldBefore(i) == IF i = 1 THEN key_log_base ELSE key_log[i - 1].held

\* The raw events of the first n log entries.
LoggedEvents(n) == [i \in 1..n |-> <<key_log[i].ev, key_log[i].key>>]

HotkeyScenario ==
    <<<<"press", KEY_A>>, <<"press", KEY_C>>, <<"release", KEY_C>>, <<"press", KEY_B>>>>

\* C8: hotkey_triggered is emitted only by an event that leaves the held set
\* exactly equal to the target set (never with a strict superset held); and
\* for target {A, B}, from nothing held, press(A), press(C), release(C),
\* press(B) fires on press(B) and on no earlier event.
C8_FiresOnlyOnExactMatch ==
    /\ \A i \in 1..Len(key_log) : key_log[i].fired => key_log[i].held = _target_keys
    /\ (/\ _target_keys = {KEY_A, KEY_B}
        /\ key_log_base = {}
        /\ Len(key_log) >= 4
        /\ LoggedEvents(4) = HotkeyScenario)
           => [i \in 1..4 |-> key_log[i].fired] = <<FALSE, FALSE, FALSE, TRUE>>

\* The scenario has run from nothing held and its last event, press(B), fired.
C8_Witness ==
    /\ _target_keys = {KEY_A, KEY_B}
    /\ key_log_base = {}
    /\ Len(key_log) >= 4
    /\ LoggedEvents(4) = HotkeyScenario
    /\ key_log[4].fired

\* C9 as stated: every event that makes the held set equal to the target set,
\* a key-up included, emits hotkey_triggered.
C9_FiresOnEveryTransition ==
    \A i \in 1..Len(key_log) :
        (key_log[i].held = _target_keys /\ HeldBefore(i) # _target_keys)
            => key_log[i].fired

\* C9 as amended: every key-down that leaves the held set equal to the target
\* set emits hotkey_triggered, and a key-up never does, also when it removes
\* the last extra key.
C9_FiresOnKeyDownOnly ==
    \A i \in 1..Len(key_log) :
        /\ (key_log[i].ev = "press" /\ key_log[i].held = _target_keys) => key_log[i].fired
        /\ key_log[i].ev = "release" => ~key_log[i].fired

\* A key-up has made the held set equal to the target set, and a key-down
\* that completed the set has fired.
C9_Witness ==
    /\ \E i \in 1..Len(key_log) :
          /\ key_log[i].ev = "release"
          /\ key_log[i].held = _target_keys
          /\ HeldBefore(i) # _target_keys
    /\ \E i \in 1..Len(key_log) :
          /\ key_log[i].ev = "press"
          /\ HeldBefore(i) # _target_keys
          /\ key_log[i].fired

\* C10: the running listener is the one for the saved configuration: it was
\* started with the hotkey string the shared AppConfig now holds and its
\* target set is the parse of that string.
C10_ListenerFollowsSavedHotkey ==
    (platform # "linux" /\ _listener)
        => /\ listener_hotkey = objs[app_config].hotkey
           /\ _target_keys = _parse_hotkey_string(objs[app_config].hotkey)

\* C11: one continued hold changes the visibility preference exactly once: a
\* key-down that made the held set equal to the target set fired, and after
\* every auto-repeat key-down that directly follows it (a key-down of a key
\* already held, no other event in between) the preference is the one the
\* first emission left.
C11_OneTogglePerHold ==
    \A i \in 1..Len(key_log) : \A j \in i..Len(key_log) :
        (/\ key_log[i].ev = "press" /\ key_log[i].fired
         /\ HeldBefore(i) # _target_keys
         /\ \A k \in (i + 1)..j :
               key_log[k].ev = "press" /\ key_log[k].key \in HeldBefore(k))
            => key_log[j].visible = key_log[i].visible

\* A client connection that _run has accepted and not yet handled.
ClientInHand ==
    IF ipc_thread = "accepted" /\ ipc_conn # None /\ ipc_conn[1].from = "client"
    THEN 1 ELSE 0

\* C12: while the listener is running (stop() has not been called), the
\* emissions of toggle_visibility_requested are exactly the client connections
\* accepted, one each, the connection in hand not yet counted; a connection
\* is open only while it is in hand; and an accept that times out emits
\* nothing.
C12_OneEmissionPerConnection ==
    /\ [](~ipc_stopped => ipc_emitted = ipc_accepted - ClientInHand)
    /\ [](ipc_thread # "accepted" => ipc_conn = None)
    /\ [][IpcAcceptTimeout => UNCHANGED <<ipc_emitted, _user_wants_visible>>]_vars

\* Two client connections, with different payloads, were accepted and handled
\* while the listener was running.
C12_Witness ==
    /\ ~ipc_stopped
    /\ ipc_accepted = 2
    /\ ipc_emitted = 2
    /\ ipc_thread = "accept"

\* C13: a stop() of a running listener is followed by the listener thread's
\* exit and by the return of stop(); the thread does not stay in accept().
C13_StopEndsListener ==
    /\ (ipc_owner_pc = "stop_connect")
          ~> (ipc_owner_pc = "idle" /\ ~ipc_stop_raised /\ ~IpcAlive)
    /\ (ipc_stopped /\ ~_running /\ ipc_thread = "accept") ~> (ipc_thread # "accept")

C15_SleepFollowsResult ==
    [][\A t \in ThreadSlots :
          (threads[t].pc # "sleep" /\ threads'[t].pc = "sleep")
              => threads'[t].sleep_duration =
                    IF \/ threads[t].current_state = None
                       \/ ~threads[t].current_state[1].is_playing
                    THEN IDLE_BACKOFF_MS
                    ELSE ClampPollInterval(objs[client_config].poll_interval_ms)]_vars

\* One loop sleeps the configured 5 s after a playing snapshot, the idle
\* interval being shorter.
C15_Witness ==
    \E t \in ThreadSlots :
        /\ threads[t].pc = "sleep"
        /\ threads[t].current_state = Some(X_playing)
        /\ threads[t].sleep_duration = 5000
        /\ IDLE_BACKOFF_MS < 5000

\* C16: a get_current() makes at most 2 remote calls and ends with a value, a
\* snapshot or None, for every combination of outcomes of its attempts;
\* without an API client it makes no call and gives None.
C16_AtMostTwoCalls ==
    /\ \A t \in ThreadSlots :
          /\ threads[t].calls <= 2
          /\ threads[t].pc = "fetched"
                => /\ threads[t].calls \in {1, 2}
                   /\ threads[t].current_state \in FetchValues
    /\ \A o1, o2 \in AttemptOutcomes :
          /\ GetCurrent(TRUE, o1, o2).result \in FetchValues
          /\ GetCurrent(TRUE, o1, o2).calls \in {1, 2}
          /\ GetCurrent(FALSE, o1, o2) = [result |-> None, calls |-> 0]
    /\ initial_fetches > 0 => initial_emitted \in {<<v>> : v \in FetchValues}

\* A get_current() of the loop has ended with None after a SpotifyException
\* and another exception, two calls made.
C16_Witness ==
    \E t \in ThreadSlots :
        /\ threads[t].pc = "fetched"
        /\ threads[t].calls = 2
        /\ threads[t].failed
        /\ threads[t].api_errors = 1

\* C17: a loop thread exits only when it finds the stop signal set or no API
\* client; and a cycle whose fetch failed is followed by a later fetch of the
\* same loop unless the stop signal is set.
C17_FailuresDoNotEndLoop ==
    /\ [][\A t \in ThreadSlots :
            (threads[t].pc \notin {"unborn", "done"}
                /\ threads'[t].pc \in {"unborn", "done"})
                => (_stop_event \/ ~_sp)]_vars
    /\ \A t \in ThreadSlots :
          (threads[t].failed /\ threads[t].pc = "fetched")
              ~> ((threads[t].failed /\ threads[t].pc = "call") \/ _stop_event)

\* A loop is making the first call of a cycle, the cycle before having failed.
C17_Witness ==
    \E t \in ThreadSlots :
        /\ threads[t].pc = "call"
        /\ threads[t].attempt = 0
        /\ threads[t].failed
        /\ ~_stop_event

\* The thread self._thread refers to, if any, has exited.
ThreadExited == _thread = 0 \/ ~IsAlive(_thread)

\* C18: a stop() that waits in its join returns; stop() changes nothing but
\* the stop signal, and directly after another stop() it changes nothing at
\* all; and when stop() returns without its join having timed out, the loop
\* thread has exited.
C18_StopReturns ==
    /\ (owner_pc = "stop_join") ~> (owner_pc = "idle")
    /\ [][Stop => (_stop_event' /\ UNCHANGED <<_sp, _thread, threads, _last_state>>)]_vars
    /\ [][(Stop /\ owner_last \in {"stop", "stop_again"})
             => UNCHANGED <<_sp, _thread, threads, _last_state, _stop_event>>]_vars
    /\ [][((Stop /\ owner_pc' = "idle") \/ JoinDone) => ThreadExited']_vars

\* Two stop() calls in a row have returned after a loop was started, and the
\* loop thread has exited.
C18_Witness ==
    /\ owner_pc = "idle"
    /\ owner_last = "stop_again"
    /\ _thread # 0
    /\ threads[_thread].pc = "done"
    /\ _stop_event

\* C19: with the stop signal set, every live loop thread exits unless the
\* signal is cleared; it begins at most one fetch cycle under the set signal;
\* and it exits only between cycles, at the loop's test.
C19_CooperativeExit ==
    /\ (_stop_event /\ AliveThreads # {}) ~> (AliveThreads = {} \/ ~_stop_event)
    /\ [](\A t \in ThreadSlots : threads[t].begun_since_stop <= 1)
    /\ [][\A t \in ThreadSlots :
            (threads[t].pc \notin {"unborn", "done"}
                /\ threads'[t].pc \in {"unborn", "done"})
                => threads[t].pc = "loop"]_vars

\* A loop that had passed its test when the signal was set has finished the
\* cycle it began afterwards and is in its sleep.
C19_Witness ==
    \E t \in ThreadSlots :
        /\ _stop_event
        /\ threads[t].begun_since_stop = 1
        /\ threads[t].pc = "sleep"

\* C20: an initial_fetch_and_emit() on an initialised client makes one
\* get_current(), emits its result once, whatever it is, and stores it in
\* _last_state; without an API client it fetches nothing, emits nothing and
\* leaves _last_state as it was.
C20_InitialFetchEmitsOnce ==
    [][(\E o1, o2 \in AttemptOutcomes : InitialFetchAndEmit(o1, o2))
          => IF _sp
             THEN /\ initial_fetches' = 1
                  /\ initial_emitted' = <<_last_state'>>
                  /\ \E o1, o2 \in AttemptOutcomes :
                        _last_state' = get_current(o1, o2)
             ELSE /\ initial_fetches' = 0
                  /\ initial_emitted' = <<>>
                  /\ UNCHANGED _last_state]_vars

\* An initial_fetch_and_emit() has emitted a snapshot equal to the _last_state
\* it found.
C20_Witness ==
    /\ owner_pc = "idle"
    /\ owner_last = "initial_fetch"
    /\ _sp
    /\ initial_prev = Some(X_playing)
    /\ initial_emitted = <<initial_prev>>

\* C21: whenever the client cannot poll (no API client: the client id is
\* missing or _initialize_client failed), no loop thread has been started by
\* start_polling() and is_configured() reports not ready.
C21_NotReadyWhenCannotPoll ==
    ~_sp => (~is_configured /\ _thread = 0 /\ AliveThreads = {})

\* C22: SpotifyClient.on_config_changed (reached through a save) sets the
\* interval that later sleeps use and nothing else of the poller: the loop
\* threads, a sleep or fetch under way included, the thread reference, the
\* stop signal, _last_state and the emitted signals are left as they were.
C22_ReconfigureOnlySetsInterval ==
    [][(\E pi \in PollChoices :
            OnSave(objs[_shared_config].client_id, objs[_shared_config].hotkey,
                   pi))
       => /\ _poll_interval' = ClampPollInterval(objs'[client_config'].poll_interval_ms)
          /\ UNCHANGED <<threads, _thread, _stop_event, _last_state,
                         clear_pending, relogin_clears>>]_vars

\* A save has changed the interval while a loop thread sleeps the old one.
C22_Witness ==
    /\ owner_last = "other"
    /\ _poll_interval = 5000
    /\ \E t \in ThreadSlots :
          /\ threads[t].pc = "sleep"
          /\ threads[t].current_state = Some(X_playing)
          /\ threads[t].sleep_duration = MIN_POLL_INTERVAL_MS

\* C23: the effective poll interval is max(250 ms, poll_interval_ms) of the
\* client's configuration, at construction and after every
\* on_config_changed, and no sleep of the loop is shorter than 250 ms.
C23_IntervalClamped ==
    LET ms == objs[client_config].poll_interval_ms IN
    /\ _poll_interval >= MIN_POLL_INTERVAL_MS
    /\ _poll_interval >= ms
    /\ _poll_interval \in {MIN_POLL_INTERVAL_MS, ms}
    /\ \A t \in ThreadSlots :
          threads[t].pc = "sleep" => threads[t].sleep_duration >= MIN_POLL_INTERVAL_MS

\* A configuration loaded with poll_interval_ms = 0 and a loop thread
\* sleeping 250 ms after a playing snapshot.
C23_Witness ==
    /\ objs[client_config].poll_interval_ms = 0
    /\ _poll_interval = MIN_POLL_INTERVAL_MS
    /\ \E t \in ThreadSlots :
          /\ threads[t].pc = "sleep"
          /\ threads[t].current_state = Some(Y_playing)
          /\ threads[t].sleep_duration = MIN_POLL_INTERVAL_MS

\* The parts of a hotkey string as the parser sees them.
KeyParts(hotkey_str) ==
    LET parts == SplitPlus(hotkey_str, 1, <<>>)
    IN  [i \in 1..Len(parts) |-> Lower(Strip(parts[i]))]

ValidPart(part) == part \in KeyNames \/ Len(part) = 1

Token(part) == IF part \in KeyNames THEN Key(part) ELSE KeyCode(part)

\* C24: _parse_hotkey_string is all-or-nothing. For the string start_listener()
\* parsed last: if it is not empty and every part is a Key name or one
\* character, the result holds exactly one token per distinct part; otherwise
\* the result is the empty set; and the result is what _target_keys holds.
C24_ParseAllOrNothing ==
    LET parsed == _parse_hotkey_string(listener_hotkey)
        parts == KeyParts(listener_hotkey)
        all_valid == /\ listener_hotkey # <<>>
                     /\ \A i \in 1..Len(parts) : ValidPart(parts[i])
    IN  /\ all_valid =>
              /\ parsed = {Token(parts[i]) : i \in 1..Len(parts)}
              /\ Cardinality(parsed) =
                     Cardinality({parts[i] : i \in 1..Len(parts)})
        /\ ~all_valid => parsed = {}
        /\ listener_hotkey # <<>> => _target_keys = parsed

\* start_listener() has parsed "ctrl+shift+f7" into three tokens.
C24_Witness ==
    /\ listener_hotkey = <<"c", "t", "r", "l", "+", "s", "h", "i", "f", "t", "+", "f", "7">>
    /\ Cardinality(_target_keys) = 3
    /\ _listener

LowerToUpper ==
    [c \in {UpperToLower[u] : u \in DOMAIN UpperToLower} |->
        CHOOSE u \in DOMAIN UpperToLower : UpperToLower[u] = c]

SwapCase(char) ==
    IF char \in DOMAIN UpperToLower THEN UpperToLower[char]
    ELSE IF char \in DOMAIN LowerToUpper THEN LowerToUpper[char]
    ELSE char

\* Every string that differs from str in the case of some letters only.
CaseVariants(str) ==
    LET letters == {i \in 1..Len(str) : SwapCase(str[i]) # str[i]}
    IN  {[i \in 1..Len(str) |-> IF i \in flipped THEN SwapCase(str[i]) ELSE str[i]] :
            flipped \in SUBSET letters}

\* C29: parsing is a function of the string that ignores the case of its
\* letters: every case variant of the string start_listener() parsed last
\* parses to the same set, which is the set the listener compares against.
C29_ParseIgnoresCase ==
    /\ \A variant \in CaseVariants(listener_hotkey) :
          _parse_hotkey_string(variant) = _parse_hotkey_string(listener_hotkey)
    /\ _listener => _target_keys = _parse_hotkey_string(listener_hotkey)

\* start_listener() has parsed "CTRL+Shift+F7" into the tokens of
\* "ctrl+shift+f7".
C29_Witness ==
    /\ listener_hotkey = <<"C", "T", "R", "L", "+", "S", "h", "i", "f", "t", "+", "F", "7">>
    /\ _listener
    /\ _target_keys = {Key(<<"c", "t", "r", "l">>), Key(<<"s", "h", "i", "f", "t">>),
                       Key(<<"f", "7">>)}

\* C30: every hotkey string the recorder produces is accepted by the parser:
\* a listener started with a non-empty recorded string is installed and its
\* target set holds one token per part of the string.
C30_RecordedHotkeyParses ==
    listener_hotkey # <<>> =>
        /\ _listener
        /\ Cardinality(_target_keys) = Len(SplitPlus(listener_hotkey, 1, <<>>))

\* C26: a failed bind does not leave the listener marked as running with no
\* accept loop: once bind() has failed and the listener thread has ended,
\* _running is false.
C26_BindFailureNotRunning ==
    (ipc_bind_saw_file /\ ~IpcAlive) => ~_running

\* C27: a cleanup failure does not abort the operation around it. When a
\* relogin() whose removal of the token cache failed returns, it has emitted
\* the clear signal once and polling runs again (a loop is alive, the stop
\* signal clear); and a listener whose constructor could not remove the
\* stale socket file exists all the same.
C27_CleanupFailureNotFatal ==
    [][/\ (ReloginStartPolling /\ relogin_remove_failed)
           => (relogin_clears' = 1 /\ AlreadyPolling' /\ ~_stop_event')
       /\ ipc_remove_failed' => ipc_thread' # "none"]_vars

\* C28: at most one activation strategy exists at any time, the one the
\* platform selects (the socket listener on Linux, the hotkey manager
\* elsewhere), and once the application is set up no step creates or drops
\* one.
C28_OneStrategy ==
    /\ [](/\ ~(HotkeyManagerExists /\ IpcListenerExists)
          /\ IpcListenerExists => platform = "linux"
          /\ HotkeyManagerExists => platform # "linux"
          /\ (_running \/ IpcAlive) => IpcListenerExists
          /\ _listener => HotkeyManagerExists)
    /\ [][(HotkeyManagerExists \/ IpcListenerExists)
            => /\ HotkeyManagerExists' = HotkeyManagerExists
               /\ IpcListenerExists' = IpcListenerExists]_vars

\* On Linux the socket listener runs and no hotkey manager exists after a
\* save, a relogin and a toggle from the tray menu.
C28_Witness ==
    /\ platform = "linux"
    /\ IpcAlive
    /\ ~HotkeyManagerExists
    /\ objs[app_config].hotkey = <<"b">>
    /\ owner_pc = "idle"
    /\ owner_last = "relogin"
    /\ ~_user_wants_visible

\* C32: within one get_current() call a backoff wait happens only between the
\* first and the second attempt: a thread waits in the backoff only after its
\* first attempt, never after the final one.
C32_BackoffOnlyBeforeRetry ==
    \A t \in ThreadSlots : threads[t].pc = "backoff" => threads[t].attempt = 0

\* C34: while stop() is the last operation that returned (start_polling() has
\* not been called again), no loop thread emits now_playing_updated or
\* assigns _last_state.
C34_QuietAfterStop ==
    [][(owner_pc = "idle" /\ owner_last \in {"stop", "stop_again"})
          => ~(\E t \in ThreadSlots : Emit(t) \/ Store(t))]_vars

\* C35: once relogin() has returned and while the consumer still shows the
\* state clear_ui_requested left, a fetch begun after relogin()'s reset of
\* _last_state is emitted when it completes, whatever its outcome (None
\* included).
C35_EmissionSupersedesClear ==
    [][\A t \in ThreadSlots :
          (/\ Compare(t)
           /\ owner_pc = "idle" /\ owner_last = "relogin"
           /\ clear_pending /\ ~threads[t].stale)
             => threads'[t].pc = "emit"]_vars

\* C36: handling the connection that stop() made, or any connection accepted
\* while the running flag was clear, emits no toggle_visibility_requested.
C36_NoEmissionAfterStop ==
    [][(/\ IpcHandle
        /\ ipc_conn # None
        /\ (ipc_conn[1].from = "stop" \/ ~ipc_conn[1].running))
          => UNCHANGED <<ipc_emitted, _user_wants_visible>>]_vars

\* C37: while a hook is installed the held-key set holds no key that is not
\* physically down: a key released while no hook was installed is not in the
\* set after the listener has been started again.
C37_HeldSetFreshAfterRestart ==
    _listener => _current_keys \subseteq pressed

\* C38: start() while the listener is running changes nothing of the
\* listener, and start() after a stop() that has returned with the thread
\* ended puts a listener thread on its way to bind and accept again.
C38_StartStopCycle ==
    [][/\ (IpcStart /\ _running) => UNCHANGED ipcVars
       /\ (/\ IpcStart
           /\ ~_running
           /\ ipc_stopped
           /\ ~ipc_stop_raised
           /\ ipc_thread = "done")
             => (_running' /\ ipc_thread' = "socket")]_vars

\* C39: no step of a second listener on the same path takes the socket file
\* of a first listener that is running and bound away from the path.
C39_SecondListenerKeepsFirst ==
    [][(/\ SecondListenerStep
        /\ _running /\ listening /\ socket_file = "own")
          => socket_file' = "own"]_vars

\* C40: loading the file that save_config wrote for a valid configuration
\* yields the same client_id, redirect_uri, poll_interval_ms and ui fields.
C40_SaveLoadRoundTrip ==
    [][SaveThenLoad => objs'[SHARED_OBJ] = objs[SHARED_OBJ]]_vars

\* C31: once an operation has completed, the overlay window is not shown
\* while the user-visibility preference is "hidden"; a relogin made while
\* the overlay is hidden leaves the preference and the window hidden.
C31_HiddenStaysHidden ==
    (owner_pc = "idle" /\ ~_user_wants_visible) => ~window_visible

\* No poller thread was ever created and nothing was fetched or stored.
NeverPolled ==
    /\ \A t \in ThreadSlots : threads[t].pc = "unborn"
    /\ _thread = 0
    /\ initial_fetches = 0
    /\ _last_state = None

\* C33: while the set-up window is open, and after it was cancelled, nothing
\* has been fetched and no polling loop exists; while the initial
\* fetch-and-emit of the set-up is under way no polling loop exists; and the
\* start_polling() of normal operation follows a completed
\* initial_fetch_and_emit().
C33_SetupBeforePolling ==
    /\ [](setup_window \in {"open", "rejected"} => NeverPolled)
    /\ [](owner_pc = "normal_fetch" => AliveThreads = {})
    /\ [][owner_pc = "normal_start" /\ owner_pc' = "idle"
             => owner_last = "initial_fetch"]_vars

\* The set-up window delivered a client id, the initial fetch was made and
\* the polling loop that followed has completed a cycle.
C33_Witness ==
    /\ setup_window = "saved"
    /\ _sp
    /\ owner_pc = "idle"
    /\ \E t \in ThreadSlots : threads[t].pc = "sleep"

=============================================================================
